---- MODULE Spec2Model ----
(***************************************************************************)
(* Offline-first attendance synchronisation: the local durable store       *)
(* (attendance_log and sync_queue tables of src/database.py), the queue    *)
(* manager of src/sync_queue.py, and the remote executor / data access     *)
(* layer of src/app.py (process_pending_queue, add_check_in,               *)
(* checkout_by_tag), together with the remote sheet they write to.         *)
(***************************************************************************)
EXTENDS Integers, Sequences, FiniteSets, TLC

VARIABLES
    USE_LOCAL_DB,     \* app.py:50, fixed when the process starts
    attendance_log,   \* table attendance_log: id -> row
    sync_queue,       \* table sync_queue: id -> row
    att_seq,          \* AUTOINCREMENT counter of attendance_log
    queue_seq,        \* AUTOINCREMENT counter of sync_queue
    uuid_seq,         \* number of uuid4() values minted so far
    clock,            \* value returned by _utc_now()
    sheet,            \* data rows of the remote AttendanceLog worksheet
    requests          \* add_check_in calls between their duplicate test and their write

vars == <<USE_LOCAL_DB, attendance_log, sync_queue, att_seq, queue_seq,
          uuid_seq, clock, sheet, requests>>

----------------------------------------------------------------------------
(* Bounds of the model *)

\* rows found in the store when the process starts
MaxSeed == 2
\* checkouts ever enqueued
MaxCheckouts == 1
\* rows of attendance_log ever created
MaxRecords == 3
\* attempts recorded on one queue item
MaxAttempts == 2
\* explicit limits passed to process_pending_queue: 1..MaxLimit
MaxLimit == 1
\* add_check_in calls in flight at once
MaxRequests == 2
MaxApiSeed == 1

(* Program constants *)

\* error_message[:500]
ErrorCap == 500
\* process_pending_queue(client=None, limit=20)
DefaultLimit == 20
\* process_pending_queue(limit=10) on every page load
RouteLimit == 10
\* number of columns named by the INSERT of add_pending_check_in
CheckInInsertColumns == 19
\* number of ? marks in its VALUES clause
CheckInInsertMarks == 20
\* number of values bound to it
CheckInInsertParams == 19

Names == <<"Ada", "Ben", "Cy", "Dee">>
Children == {Names[i] : i \in 1..2}
Dates == {"2024-06-01", "2024-06-02"}
SeedDate == "2024-06-01"
Tags == {"T7", "T8"}
CheckoutTime == "09:00 AM"

\* _utc_now() where the program only stores the value: created_at, the one
\* timestamp it compares, is taken from clock
Timestamp == "utc_now"

\* SQL NULL / Python None, and a value that is present
None == << >>
Some(x) == <<x>>

Min(a, b) == IF a < b THEN a ELSE b

\* Exceptions of the remote client: str(exc) as its kind and its length
ErrorTexts == { [kind |-> "api_error", len |-> 620] }
SchemaError == [kind |-> "Missing required column", len |-> 60]
SqlError == [kind |-> "20 values for 19 columns", len |-> 24]

\* What one remote call does: it succeeds, or raises Exception(err)
RemoteOk == [ok |-> TRUE, err |-> [kind |-> "", len |-> 0]]
RemoteFail(e) == [ok |-> FALSE, err |-> e]
RemoteOutcomes == {RemoteOk} \cup {RemoteFail(e) : e \in ErrorTexts}

\* error_message[:500]
Truncate(msg) == [kind |-> msg.kind, len |-> Min(msg.len, ErrorCap)]

\* json.dumps(payload) as stored in the payload column, and json.loads of it
json_dumps(doc) == [format |-> "json", doc |-> doc]
json_loads(text) == text.doc
\* json.loads raises JSONDecodeError (a ValueError) on any other text
Decodable(text) == text.format = "json"
DecodeError == [kind |-> "JSONDecodeError", len |-> 44]
\* a payload column that holds no JSON document
NotJson == [format |-> "text", doc |-> << >>]
\* payload.get(key, default)
PayloadGet(doc, key, default) == IF key \in DOMAIN doc THEN doc[key] ELSE default

\* The local store, the remote sheet and the clock as one value
World == [attendance_log |-> attendance_log, sync_queue |-> sync_queue,
          att_seq |-> att_seq, queue_seq |-> queue_seq, uuid_seq |-> uuid_seq,
          clock |-> clock, sheet |-> sheet]

EmptyWorld == [attendance_log |-> << >>, sync_queue |-> << >>,
               att_seq |-> 0, queue_seq |-> 0, uuid_seq |-> 0,
               clock |-> 1, sheet |-> << >>]

----------------------------------------------------------------------------
(* src/sync_queue.py *)

\* sqlite3 prepares INSERT ... VALUES only when columns, marks and bound
\* values agree in number; otherwise execute() raises OperationalError
SqlInsertAccepted(columns, marks, params) == columns = marks /\ marks = params

CheckInInsertAccepted ==
    SqlInsertAccepted(CheckInInsertColumns, CheckInInsertMarks, CheckInInsertParams)

\* The two INSERTs and the commit of add_pending_check_in
CheckInRows(w, date, child_name, day_tag) ==
    LET attendance_id == w.att_seq + 1
        sync_uuid == w.uuid_seq + 1
        queue_id == w.queue_seq + 1
        row == [date |-> date, child_name |-> child_name, day_tag |-> day_tag,
                check_out_time |-> "", status |-> "Checked-In",
                sync_status |-> "pending", synced_at |-> None,
                sync_uuid |-> Some(sync_uuid)]
        payload == [attendance_id |-> attendance_id, date |-> date,
                    child_name |-> child_name, day_tag |-> day_tag,
                    sync_uuid |-> sync_uuid]
        item == [record_id |-> Some(attendance_id), operation |-> "check_in",
                 payload |-> json_dumps(payload), status |-> "pending",
                 attempts |-> 0, last_error |-> None, last_attempt_at |-> None,
                 sync_uuid |-> Some(sync_uuid), created_at |-> w.clock]
    IN [w EXCEPT !.attendance_log = (attendance_id :> row) @@ @,
                 !.sync_queue = (queue_id :> item) @@ @,
                 !.att_seq = attendance_id,
                 !.queue_seq = queue_id,
                 !.uuid_seq = sync_uuid,
                 !.clock = @ + 1]

\* add_pending_check_in: the first execute() raises when sqlite3 rejects the
\* statement, before anything is written; the connection is never committed
add_pending_check_in(w, date, child_name, day_tag) ==
    IF CheckInInsertAccepted
    THEN [raised |-> FALSE, w |-> CheckInRows(w, date, child_name, day_tag),
          id |-> w.att_seq + 1, queue_id |-> w.queue_seq + 1]
    ELSE [raised |-> TRUE, w |-> w, id |-> 0, queue_id |-> 0]

\* CheckedInIds with the day_tag test of the WHERE clause left out
CheckedInIds_AnyTag(w, date, day_tag) ==
    {i \in DOMAIN w.attendance_log :
        /\ w.attendance_log[i].date = date
        /\ w.attendance_log[i].status = "Checked-In"}

\* SELECT id FROM attendance_log WHERE date = ? AND day_tag = ? AND status = 'Checked-In'
CheckedInIds(w, date, day_tag) ==
    {i \in DOMAIN w.attendance_log :
        /\ w.attendance_log[i].date = date
        /\ w.attendance_log[i].day_tag = day_tag
        /\ w.attendance_log[i].status = "Checked-In"}

RECURSIVE SetToSeq(_)
\* rows of a SELECT without ORDER BY, in rowid order
SetToSeq(S) ==
    IF S = {} THEN << >>
    ELSE LET m == CHOOSE x \in S : \A y \in S : x <= y
         IN <<m>> \o SetToSeq(S \ {m})

\* add_pending_checkout that writes no queue item when no record matches
add_pending_checkout_skips_empty(w, date, day_tag, checkout_time) ==
    LET attendance_ids == CheckedInIds(w, date, day_tag)
        id_list == SetToSeq(attendance_ids)
        child_names == [k \in 1..Len(id_list) |-> w.attendance_log[id_list[k]].child_name]
        updated == [i \in DOMAIN w.attendance_log |->
                      IF i \in attendance_ids
                      THEN [w.attendance_log[i] EXCEPT
                              !.check_out_time = checkout_time,
                              !.status = "Checked-Out",
                              !.sync_status = "pending",
                              !.synced_at = None]
                      ELSE w.attendance_log[i]]
        payload == [attendance_ids |-> id_list, date |-> date, day_tag |-> day_tag,
                    checkout_time |-> checkout_time, child_names |-> child_names]
        sync_uuid == w.uuid_seq + 1
        queue_id == w.queue_seq + 1
        item == [record_id |-> None, operation |-> "checkout",
                 payload |-> json_dumps(payload), status |-> "pending",
                 attempts |-> 0, last_error |-> None, last_attempt_at |-> None,
                 sync_uuid |-> Some(sync_uuid), created_at |-> w.clock]
    IN IF attendance_ids = {}
       THEN [w |-> w, attendance_ids |-> << >>, child_names |-> << >>,
             queue_id |-> 0]
       ELSE
       [w |-> [w EXCEPT !.attendance_log = updated,
                        !.sync_queue = (queue_id :> item) @@ @,
                        !.queue_seq = queue_id,
                        !.uuid_seq = sync_uuid,
                        !.clock = @ + 1],
        attendance_ids |-> id_list, child_names |-> child_names,
        queue_id |-> queue_id]

\* add_pending_checkout
add_pending_checkout(w, date, day_tag, checkout_time) ==
    LET attendance_ids == CheckedInIds(w, date, day_tag)
        id_list == SetToSeq(attendance_ids)
        child_names == [k \in 1..Len(id_list) |-> w.attendance_log[id_list[k]].child_name]
        updated == [i \in DOMAIN w.attendance_log |->
                      IF i \in attendance_ids
                      THEN [w.attendance_log[i] EXCEPT
                              !.check_out_time = checkout_time,
                              !.status = "Checked-Out",
                              !.sync_status = "pending",
                              !.synced_at = None]
                      ELSE w.attendance_log[i]]
        payload == [attendance_ids |-> id_list, date |-> date, day_tag |-> day_tag,
                    checkout_time |-> checkout_time, child_names |-> child_names]
        sync_uuid == w.uuid_seq + 1
        queue_id == w.queue_seq + 1
        item == [record_id |-> None, operation |-> "checkout",
                 payload |-> json_dumps(payload), status |-> "pending",
                 attempts |-> 0, last_error |-> None, last_attempt_at |-> None,
                 sync_uuid |-> Some(sync_uuid), created_at |-> w.clock]
    IN [w |-> [w EXCEPT !.attendance_log = updated,
                        !.sync_queue = (queue_id :> item) @@ @,
                        !.queue_seq = queue_id,
                        !.uuid_seq = sync_uuid,
                        !.clock = @ + 1],
        attendance_ids |-> id_list, child_names |-> child_names,
        queue_id |-> queue_id]

\* record_shadow_checkout: the local copies of that date and tag that are
\* Checked-In are closed and marked synced
record_shadow_checkout(w, date, day_tag, checkout_time) ==
    [w EXCEPT !.attendance_log =
        [i \in DOMAIN w.attendance_log |->
           IF i \in CheckedInIds(w, date, day_tag)
           THEN [w.attendance_log[i] EXCEPT !.check_out_time = checkout_time,
                                           !.status = "Checked-Out",
                                           !.sync_status = "synced",
                                           !.synced_at = Some(Timestamp)]
           ELSE w.attendance_log[i]]]

\* A connection of get_connection(): the store as committed, and as the
\* statements executed on the connection since (its open transaction) left it
Connect(w) == [committed |-> w, working |-> w]
Execute(conn, after) == [conn EXCEPT !.working = after]
Commit(conn) == [conn EXCEPT !.committed = conn.working]

\* a connection that makes each statement durable as it is executed
Dropped_Autocommit(conn) == conn.working

\* the store once the connection is gone; what was not committed is rolled back
Dropped(conn) == conn.committed

\* the statement of an enqueue that raises, if any
CheckoutFaults == {"none", "select", "update", "insert", "commit"}
CheckInFaults == {"none", "insert_attendance", "insert_queue", "commit"}

\* add_pending_checkout statement by statement on its connection; the call
\* has no except and no finally: an exception leaves the function with the
\* connection uncommitted
add_pending_checkout_on(w, date, day_tag, checkout_time, fault) ==
    LET whole == add_pending_checkout(w, date, day_tag, checkout_time)
        conn0 == Connect(w)
        conn1 == Execute(conn0, [w EXCEPT !.attendance_log = whole.w.attendance_log])
        conn2 == Execute(conn1, whole.w)
    IN IF fault \in {"select", "update"}
       THEN [raised |-> TRUE, w |-> Dropped(conn0)]
       ELSE IF fault = "insert"
       THEN [raised |-> TRUE, w |-> Dropped(conn1)]
       ELSE IF fault = "commit"
       THEN [raised |-> TRUE, w |-> Dropped(conn2)]
       ELSE [raised |-> FALSE, w |-> Dropped(Commit(conn2))]

\* add_pending_check_in statement by statement on its connection
add_pending_check_in_on(w, date, child_name, day_tag, fault) ==
    LET rows == CheckInRows(w, date, child_name, day_tag)
        conn0 == Connect(w)
        conn1 == Execute(conn0, [w EXCEPT !.attendance_log = rows.attendance_log,
                                          !.att_seq = rows.att_seq])
        conn2 == Execute(conn1, rows)
    IN IF fault = "insert_attendance" \/ ~CheckInInsertAccepted
       THEN [raised |-> TRUE, w |-> Dropped(conn0)]
       ELSE IF fault = "insert_queue"
       THEN [raised |-> TRUE, w |-> Dropped(conn1)]
       ELSE IF fault = "commit"
       THEN [raised |-> TRUE, w |-> Dropped(conn2)]
       ELSE [raised |-> FALSE, w |-> Dropped(Commit(conn2))]

\* PendingIds with the status test of the WHERE clause left out
PendingIds_AnyStatus(w) == DOMAIN w.sync_queue

PendingIds(w) == {q \in DOMAIN w.sync_queue : w.sync_queue[q].status = "pending"}

RECURSIVE OrderedByCreatedAt(_, _)
\* every order of the rows S that ORDER BY created_at ASC allows
OrderedByCreatedAt(w, S) ==
    IF S = {} THEN {<< >>}
    ELSE UNION { {<<q>> \o rest : rest \in OrderedByCreatedAt(w, S \ {q})} :
                 q \in {x \in S : \A y \in S :
                          w.sync_queue[x].created_at <= w.sync_queue[y].created_at} }

\* fetch_pending_queue with ORDER BY created_at DESC
fetch_pending_queue_newest_first(w, limit) ==
    { LET n == Len(s)
          reversed == [k \in 1..n |-> s[n + 1 - k]]
      IN SubSeq(reversed, 1, Min(limit, n)) :
      s \in OrderedByCreatedAt(w, PendingIds(w)) }

\* fetch_pending_queue: WHERE status = 'pending' ORDER BY created_at ASC LIMIT ?
fetch_pending_queue(w, limit) ==
    { SubSeq(s, 1, Min(limit, Len(s))) : s \in OrderedByCreatedAt(w, PendingIds(w)) }

\* UPDATE ... WHERE id = ? changes nothing when no row has that id
UpdateQueue(w, queue_id, row) ==
    IF queue_id \in DOMAIN w.sync_queue
    THEN [w EXCEPT !.sync_queue[queue_id] = row]
    ELSE w

UpdateAttendance(w, attendance_id, row) ==
    IF attendance_id \in DOMAIN w.attendance_log
    THEN [w EXCEPT !.attendance_log[attendance_id] = row]
    ELSE w

record_sync_attempt(w, queue_id) ==
    IF queue_id \in DOMAIN w.sync_queue
    THEN UpdateQueue(w, queue_id,
            [w.sync_queue[queue_id] EXCEPT !.attempts = @ + 1,
                                           !.last_attempt_at = Some(Timestamp)])
    ELSE w

\* mark_queue_item_synced that also sets attempts back to 0
mark_queue_item_synced_clears_attempts(w, queue_id) ==
    IF queue_id \in DOMAIN w.sync_queue
    THEN UpdateQueue(w, queue_id,
            [w.sync_queue[queue_id] EXCEPT !.status = "synced", !.last_error = None,
                                           !.attempts = 0])
    ELSE w

mark_queue_item_synced(w, queue_id) ==
    IF queue_id \in DOMAIN w.sync_queue
    THEN UpdateQueue(w, queue_id,
            [w.sync_queue[queue_id] EXCEPT !.status = "synced", !.last_error = None])
    ELSE w

mark_queue_item_failed(w, queue_id, error_message) ==
    IF queue_id \in DOMAIN w.sync_queue
    THEN UpdateQueue(w, queue_id,
            [w.sync_queue[queue_id] EXCEPT !.status = "failed",
                                           !.last_error = Some(Truncate(error_message))])
    ELSE w

\* update_queue_error that also gives the item status failed
update_queue_error_marks_failed(w, queue_id, error_message) ==
    IF queue_id \in DOMAIN w.sync_queue
    THEN UpdateQueue(w, queue_id,
            [w.sync_queue[queue_id] EXCEPT !.status = "failed",
                                           !.last_error = Some(Truncate(error_message))])
    ELSE w

update_queue_error(w, queue_id, error_message) ==
    IF queue_id \in DOMAIN w.sync_queue
    THEN UpdateQueue(w, queue_id,
            [w.sync_queue[queue_id] EXCEPT !.last_error = Some(Truncate(error_message))])
    ELSE w

\* mark_attendance_failed whose UPDATE leaves synced_at as it is
mark_attendance_failed_keeps_synced_at(w, attendance_id) ==
    IF attendance_id \in DOMAIN w.attendance_log
    THEN UpdateAttendance(w, attendance_id,
            [w.attendance_log[attendance_id] EXCEPT !.sync_status = "failed"])
    ELSE w

mark_attendance_failed(w, attendance_id) ==
    IF attendance_id \in DOMAIN w.attendance_log
    THEN UpdateAttendance(w, attendance_id,
            [w.attendance_log[attendance_id] EXCEPT !.sync_status = "failed",
                                                    !.synced_at = None])
    ELSE w

\* mark_attendance_synced whose UPDATE matches no row
mark_attendance_synced_no_row(w, attendance_id) == w

mark_attendance_synced(w, attendance_id) ==
    IF attendance_id \in DOMAIN w.attendance_log
    THEN UpdateAttendance(w, attendance_id,
            [w.attendance_log[attendance_id] EXCEPT !.sync_status = "synced",
                                                    !.synced_at = Some(Timestamp)])
    ELSE w

RECURSIVE MarkAllSynced(_, _, _)
\* for attendance_id in ids: mark_attendance_synced(attendance_id)
MarkAllSynced(w, ids, k) ==
    IF k > Len(ids) THEN w
    ELSE MarkAllSynced(mark_attendance_synced(w, ids[k]), ids, k + 1)

\* get_pending_attendance with WHERE sync_status = 'failed'
get_pending_attendance_failed_only(w, date) ==
    {i \in DOMAIN w.attendance_log :
        /\ w.attendance_log[i].sync_status = "failed"
        /\ w.attendance_log[i].date = date}

\* get_pending_attendance(date): ids of the rows WHERE sync_status != 'synced' AND date = ?
get_pending_attendance(w, date) ==
    {i \in DOMAIN w.attendance_log :
        /\ w.attendance_log[i].sync_status /= "synced"
        /\ w.attendance_log[i].date = date}

----------------------------------------------------------------------------
(* src/db_helper.py: the local-only backend *)

\* add_attendance_log: the INSERT names no sync column, so the row takes the
\* schema defaults (sync_status 'synced', synced_at and sync_uuid NULL)
db_add_attendance_log(w, date, child_name, day_tag) ==
    LET attendance_id == w.att_seq + 1
        row == [date |-> date, child_name |-> child_name, day_tag |-> day_tag,
                check_out_time |-> "", status |-> "Checked-In",
                sync_status |-> "synced", synced_at |-> None,
                sync_uuid |-> None]
    IN [w EXCEPT !.attendance_log = (attendance_id :> row) @@ @,
                 !.att_seq = attendance_id]

\* checkout_by_tag of db_helper whose UPDATE sets the check-out time only
db_checkout_by_tag_time_only(w, date, tag, checkout_time) ==
    LET ids == CheckedInIds(w, date, tag)
        id_list == SetToSeq(ids)
    IN [w |-> [w EXCEPT !.attendance_log =
                  [i \in DOMAIN w.attendance_log |->
                     IF i \in ids
                     THEN [w.attendance_log[i] EXCEPT !.check_out_time = checkout_time]
                     ELSE w.attendance_log[i]]],
        children |-> [k \in 1..Len(id_list) |-> w.attendance_log[id_list[k]].child_name]]

\* checkout_by_tag of db_helper
db_checkout_by_tag(w, date, tag, checkout_time) ==
    LET ids == CheckedInIds(w, date, tag)
        id_list == SetToSeq(ids)
    IN [w |-> [w EXCEPT !.attendance_log =
                  [i \in DOMAIN w.attendance_log |->
                     IF i \in ids
                     THEN [w.attendance_log[i] EXCEPT
                             !.check_out_time = checkout_time,
                             !.status = "Checked-Out"]
                     ELSE w.attendance_log[i]]],
        children |-> [k \in 1..Len(id_list) |-> w.attendance_log[id_list[k]].child_name]]

\* get_logs_by_date: ids of all rows WHERE date = ?
db_get_logs_by_date(w, date) ==
    {i \in DOMAIN w.attendance_log : w.attendance_log[i].date = date}

----------------------------------------------------------------------------
(* src/app.py: the remote sheet *)

\* append_attendance_row: one row with the record's values under the header
append_attendance_row(w, record) ==
    [w EXCEPT !.sheet = Append(@, [date |-> record.date,
                                   child_name |-> record.child_name,
                                   day_tag |-> record.day_tag,
                                   check_out_time |-> record.check_out_time,
                                   status |-> record.status])]

RemoteMatches(row, date, day_tag) ==
    row.date = date /\ row.day_tag = day_tag /\ row.status = "Checked-In"

\* perform_remote_checkout: every sheet row of that date and tag that is
\* Checked-In gets the check-out time and Status Checked-Out
perform_remote_checkout(w, date, day_tag, checkout_time) ==
    LET hit == {k \in 1..Len(w.sheet) : RemoteMatches(w.sheet[k], date, day_tag)}
        hit_list == SetToSeq(hit)
    IN [w |-> [w EXCEPT !.sheet =
                  [k \in 1..Len(w.sheet) |->
                     IF k \in hit
                     THEN [w.sheet[k] EXCEPT !.check_out_time = checkout_time,
                                             !.status = "Checked-Out"]
                     ELSE w.sheet[k]]],
        updated_children |-> [k \in 1..Len(hit_list) |-> w.sheet[hit_list[k]].child_name]]

UnsupportedOperation == [kind |-> "Unsupported operation type", len |-> 35]

\* The body of the for loop of process_pending_queue for one fetched item:
\* the attempt is recorded, the operation is replayed against the sheet
\* (outcome is what the remote call does), and the result is recorded
ReplayItem(acc, queue_id, outcome) ==
    LET item == acc.w.sync_queue[queue_id]
        payload == json_loads(item.payload)
        w1 == record_sync_attempt(acc.w, queue_id)
        known == item.operation \in {"check_in", "checkout"}
        exc == IF known THEN outcome.err ELSE UnsupportedOperation
        raised == ~known \/ ~outcome.ok
        record == [date |-> PayloadGet(payload, "date", ""),
                   child_name |-> PayloadGet(payload, "child_name", ""),
                   day_tag |-> PayloadGet(payload, "day_tag", ""),
                   check_out_time |-> PayloadGet(payload, "check_out_time", ""),
                   status |-> PayloadGet(payload, "status", "Checked-In")]
        w2 == IF item.operation = "check_in"
              THEN mark_attendance_synced(append_attendance_row(w1, record),
                                          payload["attendance_id"])
              ELSE MarkAllSynced(
                     perform_remote_checkout(w1, payload["date"], payload["day_tag"],
                                             payload["checkout_time"]).w,
                     PayloadGet(payload, "attendance_ids", << >>), 1)
    IN IF raised
       THEN [acc EXCEPT !.w = update_queue_error(w1, queue_id, exc),
                        !.failed = @ + 1]
       ELSE [acc EXCEPT !.w = mark_queue_item_synced(w2, queue_id),
                        !.processed = @ + 1]

RECURSIVE ReplayBatch_StopAtFailure(_, _, _, _)
\* ReplayBatch that leaves the loop at the first item whose replay raises
ReplayBatch_StopAtFailure(acc, batch, outcomes, k) ==
    IF k > Len(batch) THEN acc
    ELSE LET next == ReplayItem(acc, batch[k], outcomes[k])
         IN IF next.failed > acc.failed THEN next
            ELSE ReplayBatch_StopAtFailure(next, batch, outcomes, k + 1)

RECURSIVE ReplayBatch(_, _, _, _)
\* for item in queue_items: json.loads(item['payload']) stands before the
\* try, so a payload it cannot decode ends the loop and the call by raising
ReplayBatch(acc, batch, outcomes, k) ==
    IF k > Len(batch) THEN acc
    ELSE IF ~Decodable(acc.w.sync_queue[batch[k]].payload)
    THEN [acc EXCEPT !.raised = TRUE]
    ELSE ReplayBatch(ReplayItem(acc, batch[k], outcomes[k]), batch, outcomes, k + 1)

\* One run of process_pending_queue as the environment shapes it: whether the
\* client and the sheet are obtained, the rows fetch_pending_queue returns,
\* and what the remote call of each of them does
NoRun == [obtained |-> FALSE, batch |-> << >>, outcomes |-> << >>]
FlushRuns(w, limit) ==
    {NoRun} \cup
    UNION { { [obtained |-> TRUE, batch |-> b, outcomes |-> o] :
              o \in [1..Len(b) -> RemoteOutcomes] } :
            b \in fetch_pending_queue(w, limit) }

SheetUnavailable == [kind |-> "unavailable", len |-> 40]

\* process_pending_queue without the USE_LOCAL_DB test at its head
process_pending_queue_any_backend(w, local_mode, run) ==
    IF ~run.obtained
    THEN [w |-> w, processed |-> 0, failed |-> 0,
          error |-> Some(SheetUnavailable), fetched |-> FALSE, raised |-> FALSE]
    ELSE LET acc == ReplayBatch([w |-> w, processed |-> 0, failed |-> 0,
                                 raised |-> FALSE],
                                run.batch, run.outcomes, 1)
         IN [w |-> acc.w, processed |-> acc.processed, failed |-> acc.failed,
             error |-> IF acc.raised THEN Some(DecodeError) ELSE None,
             fetched |-> TRUE, raised |-> acc.raised]

\* process_pending_queue that counts an attempt on every pending item before
\* it asks for the client and the sheet
process_pending_queue_attempts_first(w, local_mode, run) ==
    LET counted == [w EXCEPT !.sync_queue =
                      [q \in DOMAIN @ |->
                         IF @[q].status = "pending"
                         THEN [@[q] EXCEPT !.attempts = @ + 1,
                                           !.last_attempt_at = Some(Timestamp)]
                         ELSE @[q]]]
    IN IF local_mode
       THEN [w |-> w, processed |-> 0, failed |-> 0, error |-> None,
             fetched |-> FALSE, raised |-> FALSE]
       ELSE IF ~run.obtained
       THEN [w |-> counted, processed |-> 0, failed |-> 0,
             error |-> Some(SheetUnavailable), fetched |-> FALSE, raised |-> FALSE]
       ELSE process_pending_queue_any_backend(w, local_mode, run)

\* process_pending_queue(client, limit)
process_pending_queue(w, local_mode, run) ==
    IF local_mode
    THEN [w |-> w, processed |-> 0, failed |-> 0, error |-> None,
          fetched |-> FALSE, raised |-> FALSE]
    ELSE IF ~run.obtained
    THEN [w |-> w, processed |-> 0, failed |-> 0,
          error |-> Some(SheetUnavailable), fetched |-> FALSE, raised |-> FALSE]
    ELSE LET acc == ReplayBatch([w |-> w, processed |-> 0, failed |-> 0,
                                 raised |-> FALSE],
                                run.batch, run.outcomes, 1)
         IN [w |-> acc.w, processed |-> acc.processed, failed |-> acc.failed,
             error |-> IF acc.raised THEN Some(DecodeError) ELSE None,
             fetched |-> TRUE, raised |-> acc.raised]

\* get_attendance_logs_by_date, remote part: the sheet rows of that date, or
\* nothing when the sheet cannot be read
RemoteLogsByDate(w, date, readable) ==
    IF readable THEN SelectSeq(w.sheet, LAMBDA row : row.date = date) ELSE << >>

\* what a read returns for one row: a sheet row (sheet row k is row k + 1 of
\* the worksheet), a local row of get_pending_attendance, a row of db_helper
\* (which carries no data_source and no sync_status)
RemoteEntry(w, k, row_id) ==
    [data_source |-> Some("remote"), sync_status |-> Some("synced"),
     row_id |-> row_id, date |-> w.sheet[k].date,
     child_name |-> w.sheet[k].child_name, day_tag |-> w.sheet[k].day_tag,
     status |-> w.sheet[k].status, check_out_time |-> w.sheet[k].check_out_time]

LocalEntry(w, i) ==
    [data_source |-> Some("local"),
     sync_status |-> Some(w.attendance_log[i].sync_status),
     row_id |-> Some(i), date |-> w.attendance_log[i].date,
     child_name |-> w.attendance_log[i].child_name,
     day_tag |-> w.attendance_log[i].day_tag,
     status |-> w.attendance_log[i].status,
     check_out_time |-> w.attendance_log[i].check_out_time]

DbEntry(w, i) ==
    [LocalEntry(w, i) EXCEPT !.data_source = None, !.sync_status = None]

\* ORDER BY date DESC: the dates of the model, in calendar order
DateRank(date) == IF date = "2024-06-01" THEN 1 ELSE 2

RECURSIVE Orders(_)
\* the orders a SELECT may return the rows S in
Orders(S) ==
    IF S = {} THEN {<< >>}
    ELSE UNION { {<<x>> \o rest : rest \in Orders(S \ {x})} : x \in S }

\* ORDER BY date DESC, check_in_time DESC, for any check-in times
OrdersByDateDesc(w, S) ==
    {o \in Orders(S) :
        \A j, k \in 1..Len(o) :
           j < k => DateRank(w.attendance_log[o[j]].date) >=
                    DateRank(w.attendance_log[o[k]].date)}

\* get_pending_attendance() without its WHERE sync_status != 'synced'
get_all_pending_attendance_every_record(w) == DOMAIN w.attendance_log

\* get_pending_attendance(): ids of the rows WHERE sync_status != 'synced'
get_all_pending_attendance(w) ==
    {i \in DOMAIN w.attendance_log : w.attendance_log[i].sync_status /= "synced"}

\* get_attendance_logs_by_date with the local part listed first
get_attendance_logs_by_date_local_first(w, local_mode, date, readable) ==
    LET rows == SetToSeq({k \in 1..Len(w.sheet) : readable /\ w.sheet[k].date = date})
        filtered == [j \in 1..Len(rows) |-> RemoteEntry(w, rows[j], Some(rows[j] + 1))]
    IN { [j \in 1..Len(o) |-> LocalEntry(w, o[j])] \o filtered :
         o \in Orders(get_pending_attendance(w, date)) }

\* get_attendance_logs_by_date(date): every list it can return; readable is
\* whether the sheet can be read
get_attendance_logs_by_date(w, local_mode, date, readable) ==
    IF local_mode
    THEN { [j \in 1..Len(o) |-> DbEntry(w, o[j])] :
           o \in Orders(db_get_logs_by_date(w, date)) }
    ELSE LET rows == SetToSeq({k \in 1..Len(w.sheet) :
                                  readable /\ w.sheet[k].date = date})
             filtered == [j \in 1..Len(rows) |->
                            RemoteEntry(w, rows[j], Some(rows[j] + 1))]
         IN { filtered \o [j \in 1..Len(o) |-> LocalEntry(w, o[j])] :
              o \in Orders(get_pending_attendance(w, date)) }

\* get_all_attendance_logs()
get_all_attendance_logs(w, local_mode, readable) ==
    IF local_mode
    THEN { [j \in 1..Len(o) |-> [DbEntry(w, o[j]) EXCEPT !.row_id = None]] :
           o \in OrdersByDateDesc(w, DOMAIN w.attendance_log) }
    ELSE LET records == [k \in 1..(IF readable THEN Len(w.sheet) ELSE 0) |->
                           RemoteEntry(w, k, None)]
         IN { records \o [j \in 1..Len(o) |-> LocalEntry(w, o[j])] :
              o \in OrdersByDateDesc(w, get_all_pending_attendance(w)) }

\* The duplicate test of add_check_in over get_attendance_logs_by_date(date)
AlreadyCheckedIn(w, local_mode, date, child_name, readable) ==
    IF local_mode
    THEN \E i \in db_get_logs_by_date(w, date) :
            /\ w.attendance_log[i].child_name = child_name
            /\ w.attendance_log[i].status = "Checked-In"
    ELSE \/ \E k \in 1..Len(RemoteLogsByDate(w, date, readable)) :
              /\ RemoteLogsByDate(w, date, readable)[k].child_name = child_name
              /\ RemoteLogsByDate(w, date, readable)[k].status = "Checked-In"
         \/ \E i \in get_pending_attendance(w, date) :
              /\ w.attendance_log[i].child_name = child_name
              /\ w.attendance_log[i].status = "Checked-In"

\* reset_failed_queue_items
\* reset_failed_queue_items without its WHERE clause
reset_failed_queue_items_every_item(w) ==
    [w EXCEPT !.sync_queue =
        [q \in DOMAIN w.sync_queue |->
           [w.sync_queue[q] EXCEPT !.status = "pending", !.last_error = None]]]

reset_failed_queue_items(w) ==
    [w EXCEPT !.sync_queue =
        [q \in DOMAIN w.sync_queue |->
           IF w.sync_queue[q].status = "failed"
           THEN [w.sync_queue[q] EXCEPT !.status = "pending", !.last_error = None]
           ELSE w.sync_queue[q]]]

\* A table without the rows whose ids are in gone
Without(table, gone) == [i \in (DOMAIN table) \ gone |-> table[i]]

\* delete_local_attendance
delete_local_attendance(w, attendance_id) ==
    [w EXCEPT
       !.sync_queue = Without(@, {q \in DOMAIN w.sync_queue :
                                    /\ w.sync_queue[q].record_id = Some(attendance_id)
                                    /\ w.sync_queue[q].status /= "synced"}),
       !.attendance_log = Without(@, {i \in DOMAIN w.attendance_log :
                                    /\ i = attendance_id
                                    /\ w.attendance_log[i].sync_status /= "synced"})]

\* delete_log_by_id of db_helper
db_delete_log_by_id(w, log_id) ==
    [w EXCEPT !.attendance_log = Without(@, {log_id})]

\* log_sheet.delete_rows(row_id): sheet row row_id is data row row_id - 1
delete_rows(w, row_id) ==
    LET k == row_id - 1
    IN IF k \in 1..Len(w.sheet)
       THEN [w EXCEPT !.sheet = [i \in 1..(Len(w.sheet) - 1) |->
                                   IF i < k THEN w.sheet[i] ELSE w.sheet[i + 1]]]
       ELSE w

----------------------------------------------------------------------------
(* src/app.py: the data access layer *)

\* the ValueError of perform_remote_checkout
RemoteSchemaMismatch == RemoteFail(SchemaError)
DirectOutcomes == RemoteOutcomes \cup {RemoteSchemaMismatch}

\* a process_pending_queue that was not reached
NoFlush == [processed |-> 0, failed |-> 0, error |-> None, fetched |-> FALSE,
            raised |-> FALSE]
Summary(res) == [processed |-> res.processed, failed |-> res.failed,
                 error |-> res.error, fetched |-> res.fetched,
                 raised |-> res.raised]

\* What a call leaves behind: w the store and the sheet after it, ret the
\* shape of what it returned (or "raised"), flush the summary of the
\* process_pending_queue it ran
Result(w, ret) == [w |-> w, ret |-> ret, id |-> 0, queue_id |-> 0,
                   ids |-> << >>, children |-> << >>, error |-> None,
                   flush |-> NoFlush]

\* add_check_in after its direct append succeeded: the row is appended and
\* the record and its queue item are marked synced
CheckInSynced(queued, date, child_name, day_tag) ==
    LET record == [date |-> date, child_name |-> child_name,
                   day_tag |-> day_tag, check_out_time |-> "",
                   status |-> "Checked-In"]
        w1 == append_attendance_row(queued.w, record)
        w2 == mark_attendance_synced(w1, queued.id)
    IN mark_queue_item_synced(w2, queued.queue_id)

\* add_check_in after its direct append raised: the error is written on
\* the queue item; the attendance record is not touched
CheckInPending(queued, error_message) ==
    update_queue_error(queued.w, queued.queue_id, error_message)

\* add_check_in from line 646 on, once its duplicate test has passed: the
\* write to the local backend, or the enqueue, the direct append and the
\* process_pending_queue(client); an exception of that last call (a payload
\* it cannot decode) is caught like one of the append
CheckInWrite(w, local_mode, date, child_name, day_tag, direct, run) ==
    LET queued == add_pending_check_in(w, date, child_name, day_tag)
        mine(r) == [r EXCEPT !.id = queued.id, !.queue_id = queued.queue_id]
    IN IF local_mode
       THEN Result(db_add_attendance_log(w, date, child_name, day_tag), "synced")
       ELSE IF queued.raised
       THEN [Result(w, "raised") EXCEPT !.error = Some(SqlError)]
       ELSE IF direct.ok
       THEN LET res == process_pending_queue(
                          CheckInSynced(queued, date, child_name, day_tag),
                          FALSE, run)
            IN IF res.raised
               THEN [mine(Result(update_queue_error(res.w, queued.queue_id,
                                                    DecodeError), "pending"))
                       EXCEPT !.error = Some(DecodeError), !.flush = Summary(res)]
               ELSE [mine(Result(res.w, "synced")) EXCEPT !.flush = Summary(res)]
       ELSE [mine(Result(CheckInPending(queued, direct.err), "pending"))
               EXCEPT !.error = Some(direct.err)]

\* add_check_in(date, child_name, session_label, day_tag, check_in_time):
\* readable is whether the sheet can be read for the duplicate test, direct
\* what the direct append does, run the process_pending_queue(client) after it
add_check_in(w, local_mode, date, child_name, day_tag, readable, direct, run) ==
    IF AlreadyCheckedIn(w, local_mode, date, child_name, readable)
    THEN Result(w, "duplicate")
    ELSE CheckInWrite(w, local_mode, date, child_name, day_tag, direct, run)

\* the runs the process_pending_queue(client) inside add_check_in can take
CheckInRuns(w, local_mode, date, child_name, day_tag, readable, direct) ==
    IF /\ ~local_mode
       /\ ~AlreadyCheckedIn(w, local_mode, date, child_name, readable)
       /\ CheckInInsertAccepted
       /\ direct.ok
    THEN FlushRuns(CheckInSynced(add_pending_check_in(w, date, child_name, day_tag),
                                 date, child_name, day_tag), DefaultLimit)
    ELSE {NoRun}

\* CheckoutSynced that reports the rows the sheet updated and nothing else
CheckoutSynced_NoFallback(queued, date, tag) ==
    LET remote == perform_remote_checkout(queued.w, date, tag, CheckoutTime)
        w1 == mark_queue_item_synced(remote.w, queued.queue_id)
    IN [w |-> MarkAllSynced(w1, queued.attendance_ids, 1),
        children |-> remote.updated_children]

\* CheckoutSynced that marks the queue item and no attendance record
CheckoutSynced_QueueOnly(queued, date, tag) ==
    LET remote == perform_remote_checkout(queued.w, date, tag, CheckoutTime)
    IN [w |-> mark_queue_item_synced(remote.w, queued.queue_id),
        children |-> remote.updated_children]

\* checkout_by_tag after its direct remote checkout succeeded: the sheet rows
\* are updated, the queue item and the records of the payload marked synced
CheckoutSynced(queued, date, tag) ==
    LET remote == perform_remote_checkout(queued.w, date, tag, CheckoutTime)
        updated_children ==
            IF remote.updated_children = << >> /\ queued.child_names /= << >>
            THEN queued.child_names
            ELSE remote.updated_children
        w1 == mark_queue_item_synced(remote.w, queued.queue_id)
    IN [w |-> MarkAllSynced(w1, queued.attendance_ids, 1),
        children |-> updated_children]

\* the except ValueError branch, with the queue item marked failed first
CheckoutRaised_MarksFailed(queued, error_message) ==
    mark_queue_item_failed(queued.w, queued.queue_id, error_message)

\* checkout_by_tag when its direct remote checkout raises ValueError:
\* "raise exc", nothing is written
CheckoutRaised(queued, error_message) == queued.w

\* checkout_by_tag(date, tag, checkout_time): direct is what the direct
\* remote checkout does, run the process_pending_queue(client) after it; a
\* ValueError (a missing column, a payload that cannot be decoded) is raised
\* again, any other exception is recorded on the queue item
checkout_by_tag(w, local_mode, date, tag, direct, run) ==
    LET queued == add_pending_checkout(w, date, tag, CheckoutTime)
        mine(r) == [r EXCEPT !.queue_id = queued.queue_id,
                             !.ids = queued.attendance_ids]
        local == db_checkout_by_tag(w, date, tag, CheckoutTime)
        done == CheckoutSynced(queued, date, tag)
        res == process_pending_queue(done.w, FALSE, run)
    IN IF local_mode
       THEN [Result(local.w, "synced") EXCEPT !.children = local.children]
       ELSE IF direct.ok /\ res.raised
       THEN [mine(Result(res.w, "raised")) EXCEPT !.error = Some(DecodeError),
                                                 !.flush = Summary(res)]
       ELSE IF direct.ok
       THEN [mine(Result(res.w, "synced")) EXCEPT !.children = done.children,
                                                 !.flush = Summary(res)]
       ELSE IF direct = RemoteSchemaMismatch
       THEN [mine(Result(CheckoutRaised(queued, direct.err), "raised"))
               EXCEPT !.error = Some(direct.err)]
       ELSE [mine(Result(update_queue_error(queued.w, queued.queue_id, direct.err),
                         "pending"))
               EXCEPT !.children = queued.child_names,
                      !.error = Some(direct.err)]

\* the runs the process_pending_queue(client) inside checkout_by_tag can take
CheckoutRuns(w, local_mode, date, tag, direct) ==
    IF ~local_mode /\ direct.ok
    THEN FlushRuns(CheckoutSynced(add_pending_checkout(w, date, tag, CheckoutTime),
                                  date, tag).w, DefaultLimit)
    ELSE {NoRun}

\* delete_attendance_log(row_id, data_source): remote is what delete_rows does
delete_attendance_log(w, local_mode, row_id, data_source, remote) ==
    IF local_mode
    THEN Result(db_delete_log_by_id(w, row_id), "deleted")
    ELSE IF data_source = "local"
    THEN Result(delete_local_attendance(w, row_id), "deleted")
    ELSE IF remote.ok
    THEN Result(delete_rows(w, row_id), "deleted")
    ELSE [Result(w, "raised") EXCEPT !.error = Some(remote.err)]

----------------------------------------------------------------------------
(* The system: the calls as steps *)

SetWorld(w) ==
    /\ attendance_log' = w.attendance_log
    /\ sync_queue' = w.sync_queue
    /\ att_seq' = w.att_seq
    /\ queue_seq' = w.queue_seq
    /\ uuid_seq' = w.uuid_seq
    /\ clock' = w.clock
    /\ sheet' = w.sheet

\* the part of the behaviour the model follows
WithinBounds(w) ==
    /\ w.att_seq <= MaxRecords
    /\ Cardinality({q \in DOMAIN w.sync_queue :
                       w.sync_queue[q].operation = "checkout"}) <= MaxCheckouts
    /\ \A q \in DOMAIN w.sync_queue : w.sync_queue[q].attempts <= MaxAttempts

\* A pending row of sync_queue that no statement of sync_queue.py writes but
\* the table accepts: operation and payload are TEXT NOT NULL and no more
ForeignRow(w, operation, payload) ==
    LET queue_id == w.queue_seq + 1
        sync_uuid == w.uuid_seq + 1
        item == [record_id |-> None, operation |-> operation,
                 payload |-> payload, status |-> "pending",
                 attempts |-> 0, last_error |-> None, last_attempt_at |-> None,
                 sync_uuid |-> Some(sync_uuid), created_at |-> w.clock]
    IN [w EXCEPT !.sync_queue = (queue_id :> item) @@ @,
                 !.queue_seq = queue_id,
                 !.uuid_seq = sync_uuid,
                 !.clock = @ + 1]

\* A queued check-in whose replay was cut short after append_attendance_row
\* returned and before the marks were written (the process stopped between
\* the remote write and mark_queue_item_synced): the row is in the sheet,
\* the record and the queue item are still pending
InterruptedReplay(w, date, child_name, day_tag) ==
    append_attendance_row(CheckInRows(w, date, child_name, day_tag),
                          [date |-> date, child_name |-> child_name,
                           day_tag |-> day_tag, check_out_time |-> "",
                           status |-> "Checked-In"])

\* The rows the process finds in its store when it starts: rows written by
\* seed_data.py through db_helper.add_attendance_log, check-ins left queued,
\* (InitForeign only) queue rows of an operation the executor does not
\* know or with a payload that is no JSON document, and (InitInterrupted
\* only) check-ins whose replay was interrupted
SeedWorld(kinds, tags) ==
    LET F[k \in 0..Len(kinds)] ==
          IF k = 0 THEN EmptyWorld
          ELSE IF kinds[k] = "seeded"
               THEN db_add_attendance_log(F[k - 1], SeedDate, Names[k], tags[k])
          ELSE IF kinds[k] = "queued"
               THEN CheckInRows(F[k - 1], SeedDate, Names[k], tags[k])
          ELSE IF kinds[k] = "unsupported"
               THEN ForeignRow(F[k - 1], "update", json_dumps([date |-> SeedDate]))
          ELSE IF kinds[k] = "interrupted"
               THEN InterruptedReplay(F[k - 1], SeedDate, Names[k], tags[k])
          ELSE ForeignRow(F[k - 1], "check_in", NotJson)
    IN F[Len(kinds)]

Init ==
    /\ USE_LOCAL_DB \in BOOLEAN
    /\ \E n \in 0..Min(MaxSeed, Len(Names)) :
         \E kinds \in [1..n -> {"seeded", "queued"}], tags \in [1..n -> Tags] :
            LET w == SeedWorld(kinds, tags)
            IN /\ attendance_log = w.attendance_log
               /\ sync_queue = w.sync_queue
               /\ att_seq = w.att_seq
               /\ queue_seq = w.queue_seq
               /\ uuid_seq = w.uuid_seq
               /\ clock = w.clock
               /\ sheet = w.sheet
    /\ requests = << >>

Step(w) == WithinBounds(w) /\ SetWorld(w) /\ UNCHANGED <<USE_LOCAL_DB, requests>>

AddCheckIn(date, child_name, day_tag, readable) ==
    \E direct \in RemoteOutcomes :
      \E run \in CheckInRuns(World, USE_LOCAL_DB, date, child_name, day_tag,
                             readable, direct) :
         Step(add_check_in(World, USE_LOCAL_DB, date, child_name, day_tag,
                           readable, direct, run).w)

CheckoutByTag(date, tag) ==
    \E direct \in DirectOutcomes :
      \E run \in CheckoutRuns(World, USE_LOCAL_DB, date, tag, direct) :
         Step(checkout_by_tag(World, USE_LOCAL_DB, date, tag, direct, run).w)

\* process_pending_queue(limit=limit), as the attendance page and callers run it
ProcessPendingQueue(limit) ==
    \E run \in FlushRuns(World, limit) :
       Step(process_pending_queue(World, USE_LOCAL_DB, run).w)

\* sync_queue.reset_failed_queue_items()
ResetFailedQueueItems == Step(reset_failed_queue_items(World))

DeleteAttendanceLog(row_id, data_source) ==
    \E remote \in RemoteOutcomes :
       Step(delete_attendance_log(World, USE_LOCAL_DB, row_id, data_source, remote).w)

Limits == (1..MaxLimit) \cup {RouteLimit}
\* row ids as the pages post them: local ids, or sheet rows from 2 on
RowIds == 1..(MaxRecords + 1)

Next ==
    \/ \E date \in Dates, child_name \in Children, day_tag \in Tags,
          readable \in BOOLEAN :
         AddCheckIn(date, child_name, day_tag, readable)
    \/ \E date \in Dates, tag \in Tags : CheckoutByTag(date, tag)
    \/ \E limit \in Limits : ProcessPendingQueue(limit)
    \/ ResetFailedQueueItems
    \/ \E row_id \in RowIds, data_source \in {"local", "remote"} :
         DeleteAttendanceLog(row_id, data_source)

Spec == Init /\ [][Next]_vars

\* The same program started on a store whose queue holds at least one row
\* it cannot replay, in remote mode
InitForeign ==
    /\ USE_LOCAL_DB = FALSE
    /\ \E n \in 1..Min(MaxSeed, Len(Names)) :
         \E kinds \in [1..n -> {"seeded", "queued", "unsupported", "undecodable"}],
            tags \in [1..n -> Tags] :
            LET w == SeedWorld(kinds, tags)
            IN /\ \E k \in 1..n : kinds[k] \in {"unsupported", "undecodable"}
               /\ attendance_log = w.attendance_log
               /\ sync_queue = w.sync_queue
               /\ att_seq = w.att_seq
               /\ queue_seq = w.queue_seq
               /\ uuid_seq = w.uuid_seq
               /\ clock = w.clock
               /\ sheet = w.sheet
    /\ requests = << >>

SpecForeign == InitForeign /\ [][Next]_vars

\* The same program started, in remote mode, after a run that was stopped
\* in the middle of a replay
InitInterrupted ==
    /\ USE_LOCAL_DB = FALSE
    /\ \E n \in 1..Min(MaxSeed, Len(Names)) :
         \E kinds \in [1..n -> {"queued", "interrupted"}],
            tags \in [1..n -> Tags] :
            LET w == SeedWorld(kinds, tags)
            IN /\ \E k \in 1..n : kinds[k] = "interrupted"
               /\ attendance_log = w.attendance_log
               /\ sync_queue = w.sync_queue
               /\ att_seq = w.att_seq
               /\ queue_seq = w.queue_seq
               /\ uuid_seq = w.uuid_seq
               /\ clock = w.clock
               /\ sheet = w.sheet
    /\ requests = << >>

SpecInterrupted == InitInterrupted /\ [][Next]_vars

\* The functions of sync_queue.py called one by one with any argument, as a
\* caller of the module may, together with the flush: the store starts as
\* under Init, in remote mode
InitQueueApi ==
    /\ USE_LOCAL_DB = FALSE
    /\ \E n \in 0..Min(MaxApiSeed, Len(Names)) :
         \E kinds \in [1..n -> {"seeded", "queued"}], tags \in [1..n -> Tags] :
            LET w == SeedWorld(kinds, tags)
            IN /\ attendance_log = w.attendance_log
               /\ sync_queue = w.sync_queue
               /\ att_seq = w.att_seq
               /\ queue_seq = w.queue_seq
               /\ uuid_seq = w.uuid_seq
               /\ clock = w.clock
               /\ sheet = w.sheet
    /\ requests = << >>

AddPendingCheckout(date, day_tag) ==
    Step(add_pending_checkout(World, date, day_tag, CheckoutTime).w)
RecordShadowCheckout(date, day_tag) ==
    Step(record_shadow_checkout(World, date, day_tag, CheckoutTime))
RecordSyncAttempt(queue_id) == Step(record_sync_attempt(World, queue_id))
MarkQueueItemSynced(queue_id) == Step(mark_queue_item_synced(World, queue_id))
MarkQueueItemFailed(queue_id, error_message) ==
    Step(mark_queue_item_failed(World, queue_id, error_message))
UpdateQueueError(queue_id, error_message) ==
    Step(update_queue_error(World, queue_id, error_message))
MarkAttendanceSynced(attendance_id) == Step(mark_attendance_synced(World, attendance_id))
MarkAttendanceFailed(attendance_id) == Step(mark_attendance_failed(World, attendance_id))
DeleteLocalAttendance(attendance_id) == Step(delete_local_attendance(World, attendance_id))

NextQueueApi ==
    \/ \E date \in Dates, day_tag \in Tags : AddPendingCheckout(date, day_tag)
    \/ \E date \in Dates, day_tag \in Tags : RecordShadowCheckout(date, day_tag)
    \/ \E queue_id \in DOMAIN sync_queue : RecordSyncAttempt(queue_id)
    \/ \E queue_id \in DOMAIN sync_queue : MarkQueueItemSynced(queue_id)
    \/ \E queue_id \in DOMAIN sync_queue, error_message \in ErrorTexts :
         MarkQueueItemFailed(queue_id, error_message)
    \/ \E queue_id \in DOMAIN sync_queue, error_message \in ErrorTexts :
         UpdateQueueError(queue_id, error_message)
    \/ \E attendance_id \in DOMAIN attendance_log : MarkAttendanceSynced(attendance_id)
    \/ \E attendance_id \in DOMAIN attendance_log : MarkAttendanceFailed(attendance_id)
    \/ \E attendance_id \in DOMAIN attendance_log : DeleteLocalAttendance(attendance_id)
    \/ ResetFailedQueueItems
    \/ \E limit \in Limits : ProcessPendingQueue(limit)

SpecQueueApi == InitQueueApi /\ [][NextQueueApi]_vars

\* Requests served concurrently (the server handles each request on a thread
\* of its own): an add_check_in call whose duplicate test has passed and
\* whose write is still to come
CheckInTest(date, child_name, day_tag, readable) ==
    /\ Len(requests) < MaxRequests
    /\ ~AlreadyCheckedIn(World, USE_LOCAL_DB, date, child_name, readable)
    /\ requests' = Append(requests, [date |-> date, child_name |-> child_name,
                                     day_tag |-> day_tag])
    /\ UNCHANGED <<USE_LOCAL_DB, attendance_log, sync_queue, att_seq, queue_seq,
                   uuid_seq, clock, sheet>>

\* the rest of the k-th call in flight
CheckInFinish(k) ==
    /\ k \in 1..Len(requests)
    /\ \E direct \in RemoteOutcomes :
         \E run \in (IF ~USE_LOCAL_DB /\ CheckInInsertAccepted /\ direct.ok
                     THEN FlushRuns(CheckInSynced(
                                       add_pending_check_in(World, requests[k].date,
                                          requests[k].child_name, requests[k].day_tag),
                                       requests[k].date, requests[k].child_name,
                                       requests[k].day_tag), DefaultLimit)
                     ELSE {NoRun}) :
            LET r == CheckInWrite(World, USE_LOCAL_DB, requests[k].date,
                                  requests[k].child_name, requests[k].day_tag,
                                  direct, run)
            IN WithinBounds(r.w) /\ SetWorld(r.w)
    /\ requests' = [j \in 1..(Len(requests) - 1) |->
                      IF j < k THEN requests[j] ELSE requests[j + 1]]
    /\ UNCHANGED USE_LOCAL_DB

NextConcurrent ==
    \/ \E date \in Dates, child_name \in Children, day_tag \in Tags,
          readable \in BOOLEAN :
         CheckInTest(date, child_name, day_tag, readable)
    \/ \E k \in 1..MaxRequests : CheckInFinish(k)

SpecConcurrent == Init /\ [][NextConcurrent]_vars

\* process_pending_queue runs that overlap (the attendance page, add_check_in
\* and checkout_by_tag each run one, on the thread of their request): a run
\* has fetched its batch and replays it item by item, while another run
\* does the same
InitOverlap == Init /\ USE_LOCAL_DB = FALSE

\* the run obtains the sheet and fetches its batch
FlushFetch(limit) ==
    /\ ~USE_LOCAL_DB
    /\ Len(requests) < MaxRequests
    /\ \E batch \in fetch_pending_queue(World, limit) :
          /\ batch /= << >>
          /\ requests' = Append(requests, [batch |-> batch])
    /\ UNCHANGED <<USE_LOCAL_DB, attendance_log, sync_queue, att_seq, queue_seq,
                   uuid_seq, clock, sheet>>

\* the k-th run in flight replays the next item of its batch, and returns
\* after the last one
FlushReplay(k) ==
    /\ k \in 1..Len(requests)
    /\ \E outcome \in RemoteOutcomes :
          LET next == ReplayItem([w |-> World, processed |-> 0, failed |-> 0,
                                  raised |-> FALSE],
                                 Head(requests[k].batch), outcome)
          IN WithinBounds(next.w) /\ SetWorld(next.w)
    /\ requests' = IF Len(requests[k].batch) > 1
                   THEN [requests EXCEPT ![k].batch = Tail(@)]
                   ELSE [j \in 1..(Len(requests) - 1) |->
                           IF j < k THEN requests[j] ELSE requests[j + 1]]
    /\ UNCHANGED USE_LOCAL_DB

NextOverlap ==
    \/ \E limit \in Limits : FlushFetch(limit)
    \/ \E k \in 1..MaxRequests : FlushReplay(k)

SpecOverlap == InitOverlap /\ [][NextOverlap]_vars

\* process_pending_queue called again and again with one limit (the
\* attendance page calls it with limit=10 on every request), one call at a
\* time.  The store starts, in remote mode, with queued check-ins and with
\* queue rows of an operation the executor does not know.  requests holds
\* the caller: its limit, the state of the remote backend, and the position
\* of the running call (the rows fetched and not replayed yet)
InitRepeatedFlush ==
    /\ USE_LOCAL_DB = FALSE
    /\ \E n \in 1..Min(MaxSeed, Len(Names)) :
         \E kinds \in [1..n -> {"queued", "unsupported"}], tags \in [1..n -> Tags] :
            LET w == SeedWorld(kinds, tags)
            IN /\ attendance_log = w.attendance_log
               /\ sync_queue = w.sync_queue
               /\ att_seq = w.att_seq
               /\ queue_seq = w.queue_seq
               /\ uuid_seq = w.uuid_seq
               /\ clock = w.clock
               /\ sheet = w.sheet
    /\ \E limit \in Limits :
         requests = <<[limit |-> limit, remote |-> "unstable",
                       running |-> FALSE, batch |-> << >>]>>

\* attempts is written by record_sync_attempt and read by no statement of
\* the program: the model counts it up to MaxAttempts and no further, so
\* that an item replayed without end is a state the behaviour returns to
CountedAttempts(w) ==
    [w EXCEPT !.sync_queue =
        [q \in DOMAIN @ |-> [@[q] EXCEPT !.attempts = Min(@, MaxAttempts)]]]

\* from some call on, every remote call succeeds
RemoteRecovers ==
    /\ requests[1].remote = "unstable"
    /\ requests' = [requests EXCEPT ![1].remote = "succeeding"]
    /\ UNCHANGED <<USE_LOCAL_DB, attendance_log, sync_queue, att_seq, queue_seq,
                   uuid_seq, clock, sheet>>

\* the head of a call: the sheet is obtained and
\* queue_items = sync_queue.fetch_pending_queue(limit=limit)
RepeatedFetch ==
    /\ ~requests[1].running
    /\ \E batch \in fetch_pending_queue(World, requests[1].limit) :
          requests' = [requests EXCEPT ![1].running = TRUE, ![1].batch = batch]
    /\ UNCHANGED <<USE_LOCAL_DB, attendance_log, sync_queue, att_seq, queue_seq,
                   uuid_seq, clock, sheet>>

\* the loop body of the running call for its next item; json.loads raises
\* out of the call on a payload that is no JSON document
RepeatedReplay ==
    /\ requests[1].running
    /\ requests[1].batch /= << >>
    /\ \E outcome \in IF requests[1].remote = "succeeding"
                      THEN {RemoteOk} ELSE RemoteOutcomes :
          LET queue_id == Head(requests[1].batch)
              next == ReplayItem([w |-> World, processed |-> 0, failed |-> 0,
                                  raised |-> FALSE], queue_id, outcome)
          IN IF Decodable(sync_queue[queue_id].payload)
             THEN /\ SetWorld(CountedAttempts(next.w))
                  /\ requests' = [requests EXCEPT ![1].batch = Tail(@)]
             ELSE /\ SetWorld(World)
                  /\ requests' = [requests EXCEPT ![1].running = FALSE,
                                                  ![1].batch = << >>]
    /\ UNCHANGED USE_LOCAL_DB

\* return {"processed": processed, "failed": failed}
RepeatedReturn ==
    /\ requests[1].running
    /\ requests[1].batch = << >>
    /\ requests' = [requests EXCEPT ![1].running = FALSE]
    /\ UNCHANGED <<USE_LOCAL_DB, attendance_log, sync_queue, att_seq, queue_seq,
                   uuid_seq, clock, sheet>>

NextRepeatedFlush ==
    \/ RemoteRecovers
    \/ RepeatedFetch
    \/ RepeatedReplay
    \/ RepeatedReturn

\* the remote backend succeeds in the end, the calls go on without end and
\* each call runs to its return
SpecRepeatedFlush ==
    /\ InitRepeatedFlush
    /\ [][NextRepeatedFlush]_vars
    /\ WF_vars(RemoteRecovers)
    /\ WF_vars(RepeatedFetch)
    /\ WF_vars(RepeatedReplay)
    /\ WF_vars(RepeatedReturn)

----------------------------------------------------------------------------
(* Properties.  Each is stated over the calls the program can make in the  *)
(* state at hand: the handler is applied to World for every input and      *)
(* every behaviour of the remote backend, and its result is examined.      *)

\* every limit process_pending_queue is called with
AllLimits == Limits \cup {DefaultLimit}

Range(s) == {s[k] : k \in 1..Len(s)}

\* a run in which the sheet is obtained and every remote call succeeds
Succeeds(run) == run.obtained /\ \A k \in 1..Len(run.batch) : run.outcomes[k].ok

\* the attendance ids the payload of a queue item names
Concerned(item) ==
    IF item.operation = "check_in"
    THEN {json_loads(item.payload)["attendance_id"]}
    ELSE Range(json_loads(item.payload)["attendance_ids"])

\* an unclosed record of that child and date, in the local store or the sheet
Unclosed(w, date, child_name) ==
    \/ \E i \in DOMAIN w.attendance_log :
          /\ w.attendance_log[i].date = date
          /\ w.attendance_log[i].child_name = child_name
          /\ w.attendance_log[i].status = "Checked-In"
    \/ \E k \in 1..Len(w.sheet) :
          /\ w.sheet[k].date = date
          /\ w.sheet[k].child_name = child_name
          /\ w.sheet[k].status = "Checked-In"

\* C1, as the specification states it: for every check-in request
\* add_pending_check_in returns normally, and on return the store holds
\* exactly one new attendance record (Checked-In, empty check-out time,
\* sync_status pending, synced_at null, a sync_uuid no other record has)
\* and exactly one new queue item (check_in, pending, attempts 0, record_id
\* and payload attendance_id equal to the new record's id).
C1_EnqueueCheckInPersists ==
    \A date \in Dates, child_name \in Children, day_tag \in Tags :
       LET r == add_pending_check_in(World, date, child_name, day_tag)
       IN /\ ~r.raised
          /\ r.id \notin DOMAIN attendance_log
          /\ DOMAIN r.w.attendance_log = DOMAIN attendance_log \cup {r.id}
          /\ \A i \in DOMAIN attendance_log : r.w.attendance_log[i] = attendance_log[i]
          /\ r.w.attendance_log[r.id].status = "Checked-In"
          /\ r.w.attendance_log[r.id].check_out_time = ""
          /\ r.w.attendance_log[r.id].sync_status = "pending"
          /\ r.w.attendance_log[r.id].synced_at = None
          /\ r.w.attendance_log[r.id].sync_uuid /= None
          /\ \A i \in DOMAIN attendance_log :
                attendance_log[i].sync_uuid /= r.w.attendance_log[r.id].sync_uuid
          /\ r.queue_id \notin DOMAIN sync_queue
          /\ DOMAIN r.w.sync_queue = DOMAIN sync_queue \cup {r.queue_id}
          /\ \A q \in DOMAIN sync_queue : r.w.sync_queue[q] = sync_queue[q]
          /\ r.w.sync_queue[r.queue_id].operation = "check_in"
          /\ r.w.sync_queue[r.queue_id].status = "pending"
          /\ r.w.sync_queue[r.queue_id].attempts = 0
          /\ r.w.sync_queue[r.queue_id].record_id = Some(r.id)
          /\ json_loads(r.w.sync_queue[r.queue_id].payload)["attendance_id"] = r.id

\* C2, as the specification states it: whenever an unclosed record of a
\* child and date exists anywhere (local and pending, local and synced, or
\* only in the sheet), add_check_in for that child and date returns the
\* duplicate result and creates nothing, whether or not the sheet can be
\* read at that moment.
C2_DuplicateRejectedEverywhere ==
    \A date \in Dates, child_name \in Children, day_tag \in Tags,
       readable \in BOOLEAN, direct \in RemoteOutcomes :
       Unclosed(World, date, child_name) =>
          \A run \in CheckInRuns(World, USE_LOCAL_DB, date, child_name, day_tag,
                                 readable, direct) :
             LET r == add_check_in(World, USE_LOCAL_DB, date, child_name, day_tag,
                                   readable, direct, run)
             IN r.ret = "duplicate" /\ r.w = World

\* C3: add_pending_checkout(date, tag, t) changes exactly the records of that
\* date and day_tag that are Checked-In: each becomes Checked-Out with
\* check_out_time t and sync_status pending, whatever its sync_status was;
\* every other record is unchanged; exactly one queue item is created, a
\* pending checkout with record_id null whose payload attendance_ids is the
\* set of the changed records' ids; the items already queued are unchanged.
C3_CheckoutChangesExactlyTheMatching ==
    \A date \in Dates, tag \in Tags :
       LET r == add_pending_checkout(World, date, tag, CheckoutTime)
           matching == {i \in DOMAIN attendance_log :
                          /\ attendance_log[i].date = date
                          /\ attendance_log[i].day_tag = tag
                          /\ attendance_log[i].status = "Checked-In"}
           item == r.w.sync_queue[r.queue_id]
       IN /\ DOMAIN r.w.attendance_log = DOMAIN attendance_log
          /\ \A i \in matching :
                /\ r.w.attendance_log[i].status = "Checked-Out"
                /\ r.w.attendance_log[i].check_out_time = CheckoutTime
                /\ r.w.attendance_log[i].sync_status = "pending"
                /\ r.w.attendance_log[i].date = attendance_log[i].date
                /\ r.w.attendance_log[i].day_tag = attendance_log[i].day_tag
                /\ r.w.attendance_log[i].child_name = attendance_log[i].child_name
                /\ r.w.attendance_log[i].sync_uuid = attendance_log[i].sync_uuid
          /\ \A i \in DOMAIN attendance_log \ matching :
                r.w.attendance_log[i] = attendance_log[i]
          /\ r.queue_id \notin DOMAIN sync_queue
          /\ DOMAIN r.w.sync_queue = DOMAIN sync_queue \cup {r.queue_id}
          /\ \A q \in DOMAIN sync_queue : r.w.sync_queue[q] = sync_queue[q]
          /\ item.operation = "checkout"
          /\ item.status = "pending"
          /\ item.record_id = None
          /\ Range(json_loads(item.payload)["attendance_ids"]) = matching
          /\ Len(json_loads(item.payload)["attendance_ids"]) = Cardinality(matching)
          /\ Range(r.attendance_ids) = matching

\* a checkout was enqueued for a record that was synced before (a row the
\* local backend wrote) and its direct attempt failed: the record is
\* Checked-Out and pending again, and the payload names it
C3_Witness ==
    /\ ~USE_LOCAL_DB
    /\ \E q \in DOMAIN sync_queue :
          /\ sync_queue[q].operation = "checkout"
          /\ sync_queue[q].status = "pending"
          /\ \E i \in Concerned(sync_queue[q]) :
                /\ i \in DOMAIN attendance_log
                /\ attendance_log[i].sync_uuid = None
                /\ attendance_log[i].status = "Checked-Out"
                /\ attendance_log[i].check_out_time = CheckoutTime
                /\ attendance_log[i].sync_status = "pending"

\* C4: from N pending check_in items and nothing else pending, one
\* process_pending_queue with limit >= N in which every remote call succeeds
\* ends with all N items synced, their N records synced, exactly N rows
\* appended to the sheet, and the summary processed N, failed 0.
C4_FlushConvergence ==
    \A limit \in AllLimits :
       \A run \in FlushRuns(World, limit) :
          LET pending == {q \in DOMAIN sync_queue : sync_queue[q].status = "pending"}
              N == Cardinality(pending)
              r == process_pending_queue(World, USE_LOCAL_DB, run)
              records == UNION {Concerned(sync_queue[q]) : q \in pending}
          IN (/\ ~USE_LOCAL_DB
              /\ Succeeds(run)
              /\ limit >= N
              /\ \A q \in pending : sync_queue[q].operation = "check_in")
             => /\ \A q \in pending : r.w.sync_queue[q].status = "synced"
                /\ Cardinality(records) = N
                /\ \A i \in records :
                      /\ i \in DOMAIN r.w.attendance_log
                      /\ r.w.attendance_log[i].sync_status = "synced"
                /\ Len(r.w.sheet) = Len(sheet) + N
                /\ SubSeq(r.w.sheet, 1, Len(sheet)) = sheet
                /\ r.processed = N
                /\ r.failed = 0

\* two queued check-ins were replayed, each at its first attempt: both items
\* and both records are synced and the sheet holds a row of each child
C4_Witness ==
    /\ ~USE_LOCAL_DB
    /\ \E q1, q2 \in DOMAIN sync_queue :
          /\ q1 /= q2
          /\ \A q \in {q1, q2} :
                /\ sync_queue[q].operation = "check_in"
                /\ sync_queue[q].status = "synced"
                /\ sync_queue[q].attempts = 1
                /\ \A i \in Concerned(sync_queue[q]) :
                      /\ i \in DOMAIN attendance_log
                      /\ attendance_log[i].sync_status = "synced"
                      /\ attendance_log[i].synced_at /= None
                      /\ \E k \in 1..Len(sheet) :
                            sheet[k].child_name = attendance_log[i].child_name
    /\ Len(sheet) = 2
    /\ \A q \in DOMAIN sync_queue : sync_queue[q].status = "synced"

\* C5: when remote calls of a batch raise, every item of the batch is still
\* dispatched (its attempt is recorded), the items whose call succeeded end
\* synced and their check-in rows are appended, each failing item stays
\* pending with last_error set, and the summary has processed = number of
\* successes and failed = number of failures.
C5_PartialFailureIsolation ==
    \A limit \in AllLimits :
       \A run \in FlushRuns(World, limit) :
          (~USE_LOCAL_DB /\ run.obtained) =>
             LET r == process_pending_queue(World, USE_LOCAL_DB, run)
                 all == 1..Len(run.batch)
                 good == {k \in all : run.outcomes[k].ok}
                 bad == all \ good
                 appended == {k \in good : sync_queue[run.batch[k]].operation = "check_in"}
             IN /\ \A k \in all :
                      r.w.sync_queue[run.batch[k]].attempts =
                         sync_queue[run.batch[k]].attempts + 1
                /\ \A k \in good : r.w.sync_queue[run.batch[k]].status = "synced"
                /\ \A k \in bad :
                      /\ r.w.sync_queue[run.batch[k]].status = "pending"
                      /\ r.w.sync_queue[run.batch[k]].last_error =
                            Some(Truncate(run.outcomes[k].err))
                /\ Len(r.w.sheet) = Len(sheet) + Cardinality(appended)
                /\ r.processed = Cardinality(good)
                /\ r.failed = Cardinality(bad)
                /\ DOMAIN r.w.sync_queue = DOMAIN sync_queue
                /\ \A q \in DOMAIN sync_queue \ Range(run.batch) :
                      r.w.sync_queue[q] = sync_queue[q]

\* an item failed at its only attempt and a younger item of the queue was
\* replayed all the same
C5_Witness ==
    /\ ~USE_LOCAL_DB
    /\ \E q1, q2 \in DOMAIN sync_queue :
          /\ sync_queue[q1].created_at < sync_queue[q2].created_at
          /\ sync_queue[q1].status = "pending"
          /\ sync_queue[q1].attempts = 1
          /\ sync_queue[q1].last_error /= None
          /\ sync_queue[q2].status = "synced"
          /\ sync_queue[q2].attempts = 1
          /\ sync_queue[q2].last_error = None

\* C6: a flush with limit L dispatches exactly the min(L, number of pending
\* items) pending items with the smallest created_at, in ascending created_at
\* order: of two dispatched items the older one is dispatched first (the rows
\* of replayed check-ins reach the sheet in that order), and no pending item
\* left out of the batch is older than a dispatched one.
C6_FifoReplay ==
    \A limit \in AllLimits :
       LET pending == {q \in DOMAIN sync_queue : sync_queue[q].status = "pending"}
       IN /\ \A batch \in fetch_pending_queue(World, limit) :
                /\ Len(batch) = Min(limit, Cardinality(pending))
                /\ Range(batch) \subseteq pending
                /\ \A i, j \in 1..Len(batch) :
                      /\ i < j => batch[i] /= batch[j]
                      /\ sync_queue[batch[i]].created_at < sync_queue[batch[j]].created_at
                            => i < j
                /\ \A q \in Range(batch), p \in pending \ Range(batch) :
                      sync_queue[q].created_at <= sync_queue[p].created_at
          /\ \A run \in FlushRuns(World, limit) :
                (/\ ~USE_LOCAL_DB
                 /\ Succeeds(run)
                 /\ \A q \in Range(run.batch) : sync_queue[q].operation = "check_in")
                => LET r == process_pending_queue(World, USE_LOCAL_DB, run)
                   IN /\ run.batch \in fetch_pending_queue(World, limit)
                      /\ Len(r.w.sheet) = Len(sheet) + Len(run.batch)
                      /\ \A k \in 1..Len(run.batch) :
                            r.w.sheet[Len(sheet) + k].child_name =
                               json_loads(sync_queue[run.batch[k]].payload)["child_name"]

\* a flush with limit 1 ran over two pending items: the older one was
\* dispatched (and is synced), the younger one was not touched
C6_Witness ==
    /\ ~USE_LOCAL_DB
    /\ \E q1, q2 \in DOMAIN sync_queue :
          /\ sync_queue[q1].created_at < sync_queue[q2].created_at
          /\ sync_queue[q1].status = "synced"
          /\ sync_queue[q1].attempts = 1
          /\ sync_queue[q2].status = "pending"
          /\ sync_queue[q2].attempts = 0
          /\ sync_queue[q2].last_attempt_at = None

\* C7, as the specification states it: process_pending_queue dispatches no
\* item whose status is synced or failed; a flush run when nothing is
\* pending changes no queue item, no record and no sheet row; and running
\* flush twice in a row with a succeeding remote ends in the same state as
\* running it once.
C7_FlushTwiceIsFlushOnce ==
    ~USE_LOCAL_DB =>
       \A limit \in AllLimits :
          /\ \A batch \in fetch_pending_queue(World, limit) :
                \A k \in 1..Len(batch) : sync_queue[batch[k]].status = "pending"
          /\ \A run \in FlushRuns(World, limit) :
                (\A q \in DOMAIN sync_queue : sync_queue[q].status /= "pending")
                => process_pending_queue(World, USE_LOCAL_DB, run).w = World
          /\ \A run1 \in FlushRuns(World, limit) :
                Succeeds(run1) =>
                   LET once == process_pending_queue(World, USE_LOCAL_DB, run1).w
                   IN \A run2 \in FlushRuns(once, limit) :
                         Succeeds(run2) =>
                            process_pending_queue(once, USE_LOCAL_DB, run2).w = once

\* C7, amended: the same, where the second flush repeats nothing provided
\* the first flush's limit was at least the number of pending items.
C7_FlushTwiceIsFlushOnceWithinLimit ==
    ~USE_LOCAL_DB =>
       \A limit \in AllLimits :
          /\ \A batch \in fetch_pending_queue(World, limit) :
                \A k \in 1..Len(batch) : sync_queue[batch[k]].status = "pending"
          /\ \A run \in FlushRuns(World, limit) :
                (\A q \in DOMAIN sync_queue : sync_queue[q].status /= "pending")
                => process_pending_queue(World, USE_LOCAL_DB, run).w = World
          /\ \A run1 \in FlushRuns(World, limit) :
                (/\ Succeeds(run1)
                 /\ limit >= Cardinality({q \in DOMAIN sync_queue :
                                            sync_queue[q].status = "pending"}))
                => LET once == process_pending_queue(World, USE_LOCAL_DB, run1).w
                   IN \A limit2 \in AllLimits :
                         \A run2 \in FlushRuns(once, limit2) :
                            process_pending_queue(once, USE_LOCAL_DB, run2).w = once

\* flushes have replayed every item of a queue of two: nothing is pending,
\* and a further flush finds nothing to dispatch
C7_Witness ==
    /\ ~USE_LOCAL_DB
    /\ Cardinality(DOMAIN sync_queue) >= 2
    /\ \A q \in DOMAIN sync_queue :
          sync_queue[q].status = "synced" /\ sync_queue[q].attempts >= 1
    /\ \A limit \in AllLimits : fetch_pending_queue(World, limit) = {<< >>}

\* the records a run leaves alone: those named by no item it replays with success
Untouched(w, run) ==
    DOMAIN w.attendance_log \
       UNION {Concerned(w.sync_queue[run.batch[k]]) :
                 k \in {j \in 1..Len(run.batch) : run.outcomes[j].ok}}

C9_RemoteFailureNeverBlocks ==
    ~USE_LOCAL_DB =>
       \A date \in Dates, tag \in Tags, e \in ErrorTexts :
          /\ \A child_name \in Children :
                ~Unclosed(World, date, child_name) =>
                   LET r == add_check_in(World, USE_LOCAL_DB, date, child_name, tag,
                                         FALSE, RemoteFail(e), NoRun)
                   IN /\ r.ret = "pending"
                      /\ r.id \in DOMAIN r.w.attendance_log \ DOMAIN attendance_log
                      /\ r.queue_id \in DOMAIN r.w.sync_queue \ DOMAIN sync_queue
                      /\ r.w.sync_queue[r.queue_id].status = "pending"
                      /\ r.w.sync_queue[r.queue_id].last_error = Some(Truncate(e))
                      /\ r.w.attendance_log[r.id].sync_status /= "synced"
          /\ LET r == checkout_by_tag(World, USE_LOCAL_DB, date, tag,
                                      RemoteFail(e), NoRun)
             IN /\ r.ret = "pending"
                /\ r.queue_id \in DOMAIN r.w.sync_queue \ DOMAIN sync_queue
                /\ r.w.sync_queue[r.queue_id].status = "pending"
                /\ r.w.sync_queue[r.queue_id].last_error = Some(Truncate(e))
                /\ \A i \in Range(r.ids) :
                      /\ r.w.attendance_log[i].status = "Checked-Out"
                      /\ r.w.attendance_log[i].sync_status /= "synced"

\* C10: when the direct remote write that follows an enqueue succeeds, the
\* new queue item and every record it names are synced on return, the call
\* returns synced, and no later flush selects that item.  For add_check_in
\* the write is lines 688-713 applied to the store as the two INSERTs of
\* add_pending_check_in leave it.
C10_DirectSuccessIsSynced ==
    ~USE_LOCAL_DB =>
       \A date \in Dates, tag \in Tags :
          /\ \A run \in CheckoutRuns(World, USE_LOCAL_DB, date, tag, RemoteOk) :
                LET r == checkout_by_tag(World, USE_LOCAL_DB, date, tag, RemoteOk, run)
                IN /\ r.ret = "synced"
                   /\ r.queue_id \notin DOMAIN sync_queue
                   /\ r.w.sync_queue[r.queue_id].status = "synced"
                   /\ Range(r.ids) = Concerned(r.w.sync_queue[r.queue_id])
                   /\ \A i \in Range(r.ids) :
                         r.w.attendance_log[i].sync_status = "synced"
                   /\ \A limit \in AllLimits :
                         \A next \in fetch_pending_queue(r.w, limit) :
                            r.queue_id \notin Range(next)
          /\ \A child_name \in Children :
                LET queued == [w |-> CheckInRows(World, date, child_name, tag),
                               id |-> att_seq + 1, queue_id |-> queue_seq + 1]
                    done == CheckInSynced(queued, date, child_name, tag)
                IN \A run \in FlushRuns(done, DefaultLimit) :
                      LET w == process_pending_queue(done, USE_LOCAL_DB, run).w
                      IN /\ w.sync_queue[queued.queue_id].status = "synced"
                         /\ w.attendance_log[queued.id].sync_status = "synced"
                         /\ Len(w.sheet) > Len(sheet)
                         /\ \A limit \in AllLimits :
                               \A next \in fetch_pending_queue(w, limit) :
                                  queued.queue_id \notin Range(next)

\* a checkout went through at its direct attempt: its item is synced
\* without any recorded attempt, and the records it names are Checked-Out
\* and synced
C10_Witness ==
    /\ ~USE_LOCAL_DB
    /\ \E q \in DOMAIN sync_queue :
          /\ sync_queue[q].operation = "checkout"
          /\ sync_queue[q].status = "synced"
          /\ sync_queue[q].attempts = 0
          /\ Concerned(sync_queue[q]) /= {}
          /\ \A i \in Concerned(sync_queue[q]) :
                /\ i \in DOMAIN attendance_log
                /\ attendance_log[i].status = "Checked-Out"
                /\ attendance_log[i].sync_status = "synced"
          /\ \E k \in 1..Len(sheet) : sheet[k].status = "Checked-Out"

\* C11: right after a check-in was enqueued and before any remote write for
\* it, every list get_attendance_logs_by_date can return for its date holds
\* the new record exactly once, as a local entry with sync_status pending,
\* whether or not the sheet can be read; and when its duplicate test passed
\* on a readable sheet, it is the only Checked-In entry of that child.
C11_EnqueuedCheckInIsVisibleOnce ==
    ~USE_LOCAL_DB =>
       \A date \in Dates, child_name \in Children, day_tag \in Tags,
          readable \in BOOLEAN :
          LET w == CheckInRows(World, date, child_name, day_tag)
              new == att_seq + 1
          IN \A read \in get_attendance_logs_by_date(w, USE_LOCAL_DB, date, readable) :
                LET mine == {j \in 1..Len(read) :
                               /\ read[j].data_source = Some("local")
                               /\ read[j].row_id = Some(new)}
                    open == {j \in 1..Len(read) :
                               /\ read[j].child_name = child_name
                               /\ read[j].status = "Checked-In"}
                IN /\ Cardinality(mine) = 1
                   /\ \A j \in mine :
                         /\ read[j].sync_status = Some("pending")
                         /\ read[j].date = date
                         /\ read[j].child_name = child_name
                         /\ read[j].day_tag = day_tag
                         /\ read[j].status = "Checked-In"
                   /\ ~AlreadyCheckedIn(World, USE_LOCAL_DB, date, child_name, TRUE)
                         => open = mine

\* a check-in sits in the store as its enqueue left it (never attempted),
\* the sheet has no row of it, and every read of its date lists it once
C11_Witness ==
    /\ ~USE_LOCAL_DB
    /\ \E q \in DOMAIN sync_queue :
          /\ sync_queue[q].operation = "check_in"
          /\ sync_queue[q].status = "pending"
          /\ sync_queue[q].attempts = 0
          /\ Decodable(sync_queue[q].payload)
          /\ \A i \in Concerned(sync_queue[q]) :
                /\ i \in DOMAIN attendance_log
                /\ attendance_log[i].sync_status = "pending"
                /\ attendance_log[i].status = "Checked-In"
                /\ \A k \in 1..Len(sheet) :
                      sheet[k].child_name /= attendance_log[i].child_name
                /\ \A readable \in BOOLEAN :
                      \A read \in get_attendance_logs_by_date(
                                     World, USE_LOCAL_DB, attendance_log[i].date,
                                     readable) :
                         Cardinality({j \in 1..Len(read) :
                                         read[j].row_id = Some(i) /\
                                         read[j].data_source = Some("local")}) = 1

\* the sheet rows a read starts with: those of the date (all of them when no
\* date is given), in sheet order, tagged remote and synced
RemotePartIs(read, rows, by_date) ==
    /\ Len(read) >= Len(rows)
    /\ \A j \in 1..Len(rows) :
          /\ read[j].data_source = Some("remote")
          /\ read[j].sync_status = Some("synced")
          /\ read[j].row_id = (IF by_date THEN Some(rows[j] + 1) ELSE None)
          /\ read[j].date = sheet[rows[j]].date
          /\ read[j].child_name = sheet[rows[j]].child_name
          /\ read[j].status = sheet[rows[j]].status
          /\ read[j].check_out_time = sheet[rows[j]].check_out_time

\* the local entries a read ends with: each record of ids once, tagged local
LocalPartIs(read, from, ids) ==
    /\ Len(read) = from + Cardinality(ids)
    /\ \A i \in ids :
          Cardinality({j \in (from + 1)..Len(read) : read[j].row_id = Some(i)}) = 1
    /\ \A j \in (from + 1)..Len(read) :
          /\ read[j].data_source = Some("local")
          /\ \E i \in ids :
                /\ read[j].row_id = Some(i)
                /\ read[j].sync_status = Some(attendance_log[i].sync_status)
                /\ read[j].sync_status /= Some("synced")
                /\ read[j].child_name = attendance_log[i].child_name
                /\ read[j].status = attendance_log[i].status

\* C12: in remote mode the unified read returns exactly the sheet's records
\* (those of the date when a date is given; none when the sheet cannot be
\* read), tagged remote and synced, in sheet order, followed by exactly the
\* local records whose sync_status is not synced, tagged local; no synced
\* local record is a local entry and no remote entry follows a local one.
C12_UnifiedReadIsRemoteThenLocal ==
    ~USE_LOCAL_DB =>
       \A readable \in BOOLEAN :
          /\ \A date \in Dates :
                LET rows == SetToSeq({k \in 1..Len(sheet) :
                                        readable /\ sheet[k].date = date})
                    ids == {i \in DOMAIN attendance_log :
                              /\ attendance_log[i].date = date
                              /\ attendance_log[i].sync_status /= "synced"}
                IN \A read \in get_attendance_logs_by_date(World, USE_LOCAL_DB,
                                                           date, readable) :
                      /\ RemotePartIs(read, rows, TRUE)
                      /\ LocalPartIs(read, Len(rows), ids)
          /\ LET rows == SetToSeq({k \in 1..Len(sheet) : readable})
                 ids == {i \in DOMAIN attendance_log :
                           attendance_log[i].sync_status /= "synced"}
             IN \A read \in get_all_attendance_logs(World, USE_LOCAL_DB, readable) :
                   /\ RemotePartIs(read, rows, FALSE)
                   /\ LocalPartIs(read, Len(rows), ids)

\* the sheet holds a row of the seed date, the store a record of that date
\* that is synced and one that is not: a read lists the row, then the latter
C12_Witness ==
    /\ ~USE_LOCAL_DB
    /\ \E k \in 1..Len(sheet) : sheet[k].date = SeedDate
    /\ \E i, j \in DOMAIN attendance_log :
          /\ attendance_log[i].date = SeedDate
          /\ attendance_log[i].sync_status = "synced"
          /\ attendance_log[j].date = SeedDate
          /\ attendance_log[j].sync_status = "pending"
    /\ \A read \in get_attendance_logs_by_date(World, USE_LOCAL_DB, SeedDate, TRUE) :
          /\ Len(read) >= 2
          /\ read[1].data_source = Some("remote")
          /\ read[Len(read)].data_source = Some("local")

C14_OneOpenRecordPerChild ==
    \A i, j \in DOMAIN attendance_log :
       (/\ attendance_log[i].status = "Checked-In"
        /\ attendance_log[j].status = "Checked-In"
        /\ attendance_log[i].child_name = attendance_log[j].child_name
        /\ attendance_log[i].date = attendance_log[j].date
        /\ attendance_log[i].day_tag = attendance_log[j].day_tag)
       => i = j

\* C16: each enqueue is atomic in the local store: when a statement of
\* add_pending_check_in or add_pending_checkout (or its commit) raises, the
\* store is as before the call; when none raises, the attendance mutation
\* and the queue item are both there; so after any run the two exist
\* together or not at all.
C16_EnqueueIsAtomic ==
    /\ \A date \in Dates, tag \in Tags, fault \in CheckoutFaults :
          LET r == add_pending_checkout_on(World, date, tag, CheckoutTime, fault)
              changed == {i \in DOMAIN attendance_log :
                            r.w.attendance_log[i] /= attendance_log[i]}
              added == DOMAIN r.w.sync_queue \ DOMAIN sync_queue
          IN /\ DOMAIN r.w.attendance_log = DOMAIN attendance_log
             /\ r.raised <=> fault /= "none"
             /\ r.raised => r.w = World
             /\ ~r.raised => /\ r.w = add_pending_checkout(World, date, tag,
                                                          CheckoutTime).w
                             /\ Cardinality(added) = 1
             /\ changed /= {} => Cardinality(added) = 1
             /\ \A q \in added :
                   /\ r.w.sync_queue[q].operation = "checkout"
                   /\ Concerned(r.w.sync_queue[q]) = changed
                   /\ \A i \in changed : r.w.attendance_log[i].status = "Checked-Out"
    /\ \A date \in Dates, child_name \in Children, tag \in Tags,
          fault \in CheckInFaults :
          LET r == add_pending_check_in_on(World, date, child_name, tag, fault)
              created == DOMAIN r.w.attendance_log \ DOMAIN attendance_log
              added == DOMAIN r.w.sync_queue \ DOMAIN sync_queue
          IN /\ r.raised => r.w = World
             /\ r.raised = add_pending_check_in(World, date, child_name, tag).raised
                   \/ fault /= "none"
             /\ ~r.raised => r.w = add_pending_check_in(World, date, child_name, tag).w
             /\ Cardinality(created) = Cardinality(added)
             /\ \A q \in added : Concerned(r.w.sync_queue[q]) = created

\* a checkout would change a record here, and the enqueue whose INSERT into
\* sync_queue raises, after its UPDATE ran, leaves the store as it was
C16_Witness ==
    /\ ~USE_LOCAL_DB
    /\ \E date \in Dates, tag \in Tags :
          /\ \E i \in DOMAIN attendance_log :
                /\ attendance_log[i].date = date
                /\ attendance_log[i].day_tag = tag
                /\ attendance_log[i].status = "Checked-In"
          /\ add_pending_checkout_on(World, date, tag, CheckoutTime, "insert").raised
          /\ add_pending_checkout_on(World, date, tag, CheckoutTime, "insert").w = World
          /\ add_pending_checkout_on(World, date, tag, CheckoutTime, "none").w /= World

\* the k-th item of the batch is reached by the loop of the flush: no item
\* before it, nor itself, ends the call at json.loads
Dispatched(w, batch, k) ==
    \A j \in 1..k : Decodable(w.sync_queue[batch[j]].payload)

C18_LocalBackendNeverFlushes ==
    USE_LOCAL_DB =>
      \A limit \in AllLimits : \A run \in FlushRuns(World, limit) :
         LET r == process_pending_queue(World, USE_LOCAL_DB, run)
         IN /\ r.processed = 0
            /\ r.failed = 0
            /\ r.error = None
            /\ ~r.raised
            /\ r.w.sync_queue = sync_queue
            /\ r.w.attendance_log = attendance_log
            /\ r.w.sheet = sheet

\* the local-only backend with a pending item in the queue, and a run in
\* which the sheet would be reachable and the item fetched
C18_Witness ==
    /\ USE_LOCAL_DB
    /\ \E q \in DOMAIN sync_queue : sync_queue[q].status = "pending"
    /\ \E limit \in AllLimits : \E run \in FlushRuns(World, limit) :
          /\ run.obtained
          /\ Len(run.batch) > 0
          /\ process_pending_queue(World, USE_LOCAL_DB, run).w = World

Reached(w, batch, k) ==
    \A j \in 1..(k - 1) : Decodable(w.sync_queue[batch[j]].payload)

OpenRows(rows, date, child_name) ==
    {k \in 1..Len(rows) : /\ rows[k].date = date
                          /\ rows[k].child_name = child_name
                          /\ rows[k].status = "Checked-In"}

BeforeItem(w, run, k) ==
    ReplayBatch([w |-> w, processed |-> 0, failed |-> 0, raised |-> FALSE],
                SubSeq(run.batch, 1, k - 1), run.outcomes, 1).w

\* the sheet rows a checkout of that date and tag would update
RemoteHits(w, date, day_tag) ==
    {k \in 1..Len(w.sheet) : RemoteMatches(w.sheet[k], date, day_tag)}

AllowedQueueSteps ==
    {<<"pending", "synced">>, <<"pending", "failed">>, <<"failed", "pending">>}

\* C25: the status of a queue item changes only from pending to synced,
\* from pending to failed and from failed to pending: a synced item is never
\* moved back to pending or failed by any sequence of operations (flush,
\* direct attempts, mark_queue_item_failed, update_queue_error,
\* reset_failed_queue_items), and the flush dispatches pending items only.
C25_QueueStatusLifecycle ==
    [][/\ \A q \in DOMAIN sync_queue \cap DOMAIN sync_queue' :
             \/ sync_queue'[q].status = sync_queue[q].status
             \/ <<sync_queue[q].status, sync_queue'[q].status>> \in AllowedQueueSteps
       /\ \A limit \in AllLimits : \A run \in FlushRuns(World, limit) :
             \A k \in 1..Len(run.batch) :
                sync_queue[run.batch[k]].status = "pending"]_vars

\* the changes of sync_status the lifecycle of an attendance record allows
AllowedRecordSteps ==
    {<<"pending", "synced">>, <<"pending", "failed">>, <<"failed", "pending">>,
     <<"synced", "pending">>}

\* C26: the sync_status of an attendance record changes only from pending
\* to synced, from pending to failed, from failed to pending and from synced
\* to pending; from synced to pending only through a checkout of the record
\* (it is Checked-Out afterwards and was not before); no operation takes a
\* record from synced to failed.
C26_RecordSyncStatusLifecycle ==
    [][\A i \in DOMAIN attendance_log \cap DOMAIN attendance_log' :
          /\ \/ attendance_log'[i].sync_status = attendance_log[i].sync_status
             \/ <<attendance_log[i].sync_status, attendance_log'[i].sync_status>>
                   \in AllowedRecordSteps
          /\ (attendance_log[i].sync_status = "synced"
              /\ attendance_log'[i].sync_status = "pending")
             => (attendance_log[i].status = "Checked-In"
                 /\ attendance_log'[i].status = "Checked-Out")]_vars

\* C27: the attempts counter of a queue item never decreases under any
\* sequence of operations: record_sync_attempt raises it by exactly one;
\* mark_queue_item_synced, mark_queue_item_failed, update_queue_error and
\* reset_failed_queue_items leave it as it is.
C27_AttemptsOnlyIncrease ==
    [][/\ \A q \in DOMAIN sync_queue \cap DOMAIN sync_queue' :
             sync_queue'[q].attempts >= sync_queue[q].attempts
       /\ \A q \in DOMAIN sync_queue :
             /\ record_sync_attempt(World, q).sync_queue[q].attempts
                   = sync_queue[q].attempts + 1
             /\ mark_queue_item_synced(World, q).sync_queue[q].attempts
                   = sync_queue[q].attempts
             /\ reset_failed_queue_items(World).sync_queue[q].attempts
                   = sync_queue[q].attempts
             /\ \A error_message \in ErrorTexts :
                   /\ mark_queue_item_failed(World, q, error_message)
                         .sync_queue[q].attempts = sync_queue[q].attempts
                   /\ update_queue_error(World, q, error_message)
                         .sync_queue[q].attempts = sync_queue[q].attempts]_vars

\* an item with recorded attempts has been marked failed, and another one
\* with recorded attempts has been marked synced
C27_Witness ==
    /\ \E q \in DOMAIN sync_queue :
          /\ sync_queue[q].attempts >= 1
          /\ sync_queue[q].status = "failed"
    /\ \E q \in DOMAIN sync_queue :
          /\ sync_queue[q].attempts >= 1
          /\ sync_queue[q].status = "synced"

\* every record whose check-out time a call has changed is Checked-Out
\* after it
ClosesWhatItTimes(after) ==
    \A i \in DOMAIN attendance_log \cap DOMAIN after.attendance_log :
       after.attendance_log[i].check_out_time /= attendance_log[i].check_out_time
       => after.attendance_log[i].status = "Checked-Out"

\* C28: in every reachable state every local attendance record with Status
\* Checked-In has an empty check-out time, and each operation that sets a
\* check-out time (add_pending_checkout, record_shadow_checkout,
\* checkout_by_tag of db_helper) sets Status Checked-Out in the same step.
C28_CheckedInHasNoCheckOutTime ==
    /\ \A i \in DOMAIN attendance_log :
          attendance_log[i].status = "Checked-In"
          => attendance_log[i].check_out_time = ""
    /\ \A date \in Dates, tag \in Tags :
          /\ ClosesWhatItTimes(add_pending_checkout(World, date, tag, CheckoutTime).w)
          /\ ClosesWhatItTimes(record_shadow_checkout(World, date, tag, CheckoutTime))
          /\ ClosesWhatItTimes(db_checkout_by_tag(World, date, tag, CheckoutTime).w)
    /\ \A date \in Dates, child_name \in Children, tag \in Tags :
          LET w == CheckInRows(World, date, child_name, tag)
          IN /\ w.attendance_log[w.att_seq].status = "Checked-In"
             /\ w.attendance_log[w.att_seq].check_out_time = ""

\* the local-only backend after a checkout by tag: one record closed with
\* its check-out time, another one still Checked-In
C28_Witness ==
    /\ USE_LOCAL_DB
    /\ \E i \in DOMAIN attendance_log :
          /\ attendance_log[i].status = "Checked-Out"
          /\ attendance_log[i].check_out_time = CheckoutTime
    /\ \E i \in DOMAIN attendance_log :
          /\ attendance_log[i].status = "Checked-In"
          /\ attendance_log[i].check_out_time = ""

\* C29: in every reachable state a local attendance record has a non-null
\* synced_at only if its sync_status is synced: every operation that makes
\* a record synced sets synced_at, and every operation that takes it away
\* from synced (the checkout that re-opens it, mark_attendance_failed)
\* clears it.
C29_SyncedAtOnlyWhenSynced ==
    /\ \A i \in DOMAIN attendance_log :
          attendance_log[i].synced_at /= None
          => attendance_log[i].sync_status = "synced"
    /\ \A i \in DOMAIN attendance_log :
          /\ mark_attendance_synced(World, i).attendance_log[i].sync_status = "synced"
          /\ mark_attendance_synced(World, i).attendance_log[i].synced_at /= None
          /\ mark_attendance_failed(World, i).attendance_log[i].sync_status = "failed"
          /\ mark_attendance_failed(World, i).attendance_log[i].synced_at = None
    /\ \A date \in Dates, tag \in Tags :
          LET queued == add_pending_checkout(World, date, tag, CheckoutTime).w
              shadow == record_shadow_checkout(World, date, tag, CheckoutTime)
          IN \A i \in DOMAIN attendance_log :
                /\ queued.attendance_log[i] /= attendance_log[i]
                   => /\ queued.attendance_log[i].sync_status = "pending"
                      /\ queued.attendance_log[i].synced_at = None
                /\ shadow.attendance_log[i] /= attendance_log[i]
                   => /\ shadow.attendance_log[i].sync_status = "synced"
                      /\ shadow.attendance_log[i].synced_at /= None

\* a record that is synced with its synced_at set and still Checked-In:
\* the checkout that re-opens it and mark_attendance_failed both clear it
C29_Witness ==
    \E i \in DOMAIN attendance_log :
       /\ attendance_log[i].sync_status = "synced"
       /\ attendance_log[i].synced_at /= None
       /\ attendance_log[i].status = "Checked-In"
       /\ mark_attendance_failed(World, i).attendance_log[i].synced_at = None
       /\ add_pending_checkout(World, attendance_log[i].date, attendance_log[i].day_tag,
                               CheckoutTime).w.attendance_log[i].synced_at = None

\* the failed items of the queue
FailedIds(w) == {q \in DOMAIN w.sync_queue : w.sync_queue[q].status = "failed"}

\* what reset_failed_queue_items leaves outside the rows it resets: the
\* other items, the attempts counters, the attendance records, the sheet;
\* and the flush selects the reset items again, in created_at order
ResetFrame(w) ==
    /\ DOMAIN w.sync_queue = DOMAIN sync_queue
    /\ \A q \in DOMAIN sync_queue :
          /\ q \notin FailedIds(World) => w.sync_queue[q] = sync_queue[q]
          /\ q \in FailedIds(World) => w.sync_queue[q].status = "pending"
          /\ w.sync_queue[q].attempts = sync_queue[q].attempts
    /\ w.attendance_log = attendance_log
    /\ w.sheet = sheet
    /\ \A limit \in AllLimits : \A batch \in fetch_pending_queue(w, limit) :
          /\ Len(batch) = Min(limit, Cardinality(PendingIds(World) \cup FailedIds(World)))
          /\ Range(batch) \subseteq PendingIds(World) \cup FailedIds(World)
          /\ \A i, j \in 1..Len(batch) :
                sync_queue[batch[i]].created_at < sync_queue[batch[j]].created_at
                => i < j
          /\ \A q \in Range(batch), p \in PendingIds(w) \ Range(batch) :
                sync_queue[q].created_at <= sync_queue[p].created_at

\* C30 as stated: reset_failed_queue_items sets every failed queue item to
\* pending and changes nothing else, in the items it resets no more than
\* in the others; the flush selects the reset items again in created_at
\* order.
C30_ResetChangesStatusOnly ==
    LET w == reset_failed_queue_items(World)
    IN /\ ResetFrame(w)
       /\ \A q \in FailedIds(World) :
             w.sync_queue[q] = [sync_queue[q] EXCEPT !.status = "pending"]

\* C30 amended: reset_failed_queue_items sets every failed queue item to
\* pending and clears its last_error; every other column of it, every
\* pending and synced item, every attempts counter, the attendance records
\* and the sheet are unchanged; the flush selects the reset items again in
\* created_at order.
C30_ResetChangesStatusAndError ==
    LET w == reset_failed_queue_items(World)
    IN /\ ResetFrame(w)
       /\ \A q \in FailedIds(World) :
             w.sync_queue[q] = [sync_queue[q] EXCEPT !.status = "pending",
                                                     !.last_error = None]

\* a failed item with its error recorded and attempts made, next to a
\* synced item: the reset makes the first pending and a flush fetches it
C30_Witness ==
    /\ \E q \in FailedIds(World) :
          /\ sync_queue[q].last_error /= None
          /\ sync_queue[q].attempts >= 1
          /\ \E batch \in fetch_pending_queue(reset_failed_queue_items(World), RouteLimit) :
                q \in Range(batch)
    /\ \E q \in DOMAIN sync_queue : sync_queue[q].status = "synced"

\* C31: when the direct remote checkout of checkout_by_tag reports a schema
\* mismatch (a required column is missing), the error reaches the caller
\* and no success is reported; the records checked out locally keep
\* sync_status pending and the checkout queue item stays pending, so that a
\* later flush retries it.
C31_SchemaMismatchIsSurfaced ==
    ~USE_LOCAL_DB =>
      \A date \in Dates, tag \in Tags :
         \A run \in CheckoutRuns(World, USE_LOCAL_DB, date, tag, RemoteSchemaMismatch) :
            LET r == checkout_by_tag(World, USE_LOCAL_DB, date, tag,
                                     RemoteSchemaMismatch, run)
            IN /\ r.ret = "raised"
               /\ r.error = Some(SchemaError)
               /\ r.w.sheet = sheet
               /\ r.queue_id \notin DOMAIN sync_queue
               /\ r.w.sync_queue[r.queue_id].status = "pending"
               /\ Range(r.ids) = CheckedInIds(World, date, tag)
               /\ \A i \in Range(r.ids) :
                     /\ r.w.attendance_log[i].status = "Checked-Out"
                     /\ r.w.attendance_log[i].sync_status = "pending"
               /\ \E again \in FlushRuns(r.w, DefaultLimit) :
                     r.queue_id \in Range(again.batch)

\* a checkout whose direct attempt raised the mismatch: its item is pending
\* with no attempt and no error recorded, the records it names are
\* Checked-Out and pending
C31_Witness ==
    /\ ~USE_LOCAL_DB
    /\ \E q \in DOMAIN sync_queue :
          /\ sync_queue[q].operation = "checkout"
          /\ sync_queue[q].status = "pending"
          /\ sync_queue[q].attempts = 0
          /\ sync_queue[q].last_error = None
          /\ Concerned(sync_queue[q]) /= {}
          /\ \A i \in Concerned(sync_queue[q]) :
                /\ i \in DOMAIN attendance_log
                /\ attendance_log[i].status = "Checked-Out"
                /\ attendance_log[i].sync_status = "pending"

\* no queue item of the store carries the sync_uuid of an attendance record
DistinctUuids(w) ==
    \A q \in DOMAIN w.sync_queue, i \in DOMAIN w.attendance_log :
       w.sync_queue[q].sync_uuid /= None
       => w.sync_queue[q].sync_uuid /= w.attendance_log[i].sync_uuid

C33_EmptyCheckoutIsEnqueuedAndReplayed ==
    ~USE_LOCAL_DB =>
      \A date \in Dates, tag \in Tags :
         CheckedInIds(World, date, tag) = {}
         => LET queued == add_pending_checkout(World, date, tag, CheckoutTime)
                q == queued.queue_id
                replayed == ReplayItem([w |-> queued.w, processed |-> 0,
                                        failed |-> 0, raised |-> FALSE], q, RemoteOk)
            IN /\ queued.attendance_ids = << >>
               /\ queued.child_names = << >>
               /\ queued.w.attendance_log = attendance_log
               /\ DOMAIN queued.w.sync_queue = DOMAIN sync_queue \cup {q}
               /\ q \notin DOMAIN sync_queue
               /\ queued.w.sync_queue[q].operation = "checkout"
               /\ queued.w.sync_queue[q].status = "pending"
               /\ replayed.w.attendance_log = attendance_log
               /\ replayed.w.sync_queue[q].status = "synced"
               /\ replayed.processed = 1
               /\ replayed.failed = 0
               /\ \A limit \in AllLimits : \A run \in FlushRuns(queued.w, limit) :
                     \A k \in 1..Len(run.batch) :
                        (run.obtained /\ run.batch[k] = q /\ run.outcomes[k].ok)
                        => LET r == process_pending_queue(queued.w, USE_LOCAL_DB, run)
                           IN /\ r.w.sync_queue[q].status = "synced"
                              /\ r.processed >= 1

\* a checkout that matched no record was enqueued and a flush has replayed
\* it: its item names no record, has an attempt recorded and is synced
C33_Witness ==
    /\ ~USE_LOCAL_DB
    /\ \E q \in DOMAIN sync_queue :
          /\ sync_queue[q].operation = "checkout"
          /\ Concerned(sync_queue[q]) = {}
          /\ sync_queue[q].attempts >= 1
          /\ sync_queue[q].status = "synced"

\* the sheet rows of one child and date
RowsOf(rows, date, child_name) ==
    {k \in 1..Len(rows) : rows[k].date = date /\ rows[k].child_name = child_name}

ReplayTouchesListedOnly(w, q) ==
    LET replayed == ReplayItem([w |-> w, processed |-> 0, failed |-> 0,
                                raised |-> FALSE], q, RemoteOk).w
        listed == Range(json_loads(w.sync_queue[q].payload)["child_names"])
    IN \A k \in 1..Len(w.sheet) :
          replayed.sheet[k] /= w.sheet[k] => w.sheet[k].child_name \in listed

C38_FlushWithoutSheetChangesNothing ==
    ~USE_LOCAL_DB =>
      LET result == process_pending_queue(World, USE_LOCAL_DB, NoRun)
      IN /\ result.processed = 0
         /\ result.failed = 0
         /\ result.error /= None
         /\ result.error[1].len > 0
         /\ ~result.fetched
         /\ ~result.raised
         /\ result.w.sync_queue = sync_queue
         /\ result.w.attendance_log = attendance_log
         /\ result.w.sheet = sheet

\* a remote-mode store with an item waiting that was tried before and with
\* a record that is not synced: a flush with a sheet would change both
C38_Witness ==
    /\ ~USE_LOCAL_DB
    /\ \E q \in PendingIds(World) : sync_queue[q].attempts > 0
    /\ get_all_pending_attendance(World) /= {}
    /\ process_pending_queue(World, USE_LOCAL_DB, NoRun).error = Some(SheetUnavailable)
    /\ \E run \in FlushRuns(World, DefaultLimit) :
          process_pending_queue(World, USE_LOCAL_DB, run).w /= World

\* the entries of logs are the local records ids, each once, tagged local
\* and carrying the record's fields
LocalRecordsOnly(w, logs, ids) ==
    /\ Len(logs) = Cardinality(ids)
    /\ \A j \in 1..Len(logs) :
          /\ logs[j].data_source = Some("local")
          /\ logs[j].row_id /= None
          /\ logs[j].row_id[1] \in ids
          /\ logs[j] = LocalEntry(w, logs[j].row_id[1])
          /\ logs[j].sync_status /= Some("synced")
    /\ \A i \in ids : \E j \in 1..Len(logs) : logs[j].row_id = Some(i)

\* C39: when the remote backend cannot be read, the unified read
\* (get_attendance_logs_by_date, get_all_attendance_logs) does not fail: it
\* returns exactly the local attendance records whose sync_status is not
\* synced (of the date asked for, when read by date), each tagged
\* data_source=local, and no locally stored record whose sync_status is
\* synced.
C39_UnreadableRemoteLeavesLocalUnsynced ==
    ~USE_LOCAL_DB =>
      /\ get_all_attendance_logs(World, USE_LOCAL_DB, FALSE) /= {}
      /\ \A logs \in get_all_attendance_logs(World, USE_LOCAL_DB, FALSE) :
            LocalRecordsOnly(World, logs,
               {i \in DOMAIN attendance_log :
                   attendance_log[i].sync_status /= "synced"})
      /\ \A date \in Dates :
            /\ get_attendance_logs_by_date(World, USE_LOCAL_DB, date, FALSE) /= {}
            /\ \A logs \in get_attendance_logs_by_date(World, USE_LOCAL_DB, date, FALSE) :
                  LocalRecordsOnly(World, logs,
                     {i \in DOMAIN attendance_log :
                         /\ attendance_log[i].sync_status /= "synced"
                         /\ attendance_log[i].date = date})

\* a remote-mode store with a synced record whose row is in the sheet and a
\* record that is not synced, read while the sheet cannot be read
C39_Witness ==
    /\ ~USE_LOCAL_DB
    /\ sheet /= << >>
    /\ \E i, k \in DOMAIN attendance_log :
          /\ attendance_log[i].sync_status = "synced"
          /\ attendance_log[k].sync_status /= "synced"
          /\ \E r \in 1..Len(sheet) : sheet[r].child_name = attendance_log[i].child_name
          /\ \A logs \in get_attendance_logs_by_date(World, USE_LOCAL_DB,
                                                     attendance_log[k].date, FALSE) :
                /\ \E j \in 1..Len(logs) : logs[j].row_id = Some(k)
                /\ \A j \in 1..Len(logs) : logs[j].row_id /= Some(i)
          /\ \E logs \in get_attendance_logs_by_date(World, USE_LOCAL_DB,
                                                     attendance_log[k].date, TRUE) :
                \E j \in 1..Len(logs) : logs[j].data_source = Some("remote")

====
